---------------------------- MODULE Spec2Model ----------------------------
(***************************************************************************)
(* Model of the solid-mcp dispatcher (SolidMCPServer), the pod client      *)
(* (SolidClient) and the helpers of utils (normalizeUrl,                   *)
(* parseResourceMetadata, getFilenameFromUrl).                             *)
(*                                                                         *)
(* Strings are sequences of atoms: an atom is one character or an opaque   *)
(* chunk whose inside the code never inspects.  Template literals are      *)
(* concatenations (\o), String.includes is contiguous-subsequence search.  *)
(* JavaScript values are records tagged by the field t.                    *)
(***************************************************************************)
EXTENDS Integers, Sequences, FiniteSets, TLC

(***************************************************************************)
(* Bounds of the model.                                                    *)
(***************************************************************************)
MaxDepth == 2       \* nesting of searchResources calls explored
MaxCalls == 6       \* transport calls explored in one invocation
MaxRivals == 1      \* calls of other invocations served during one invocation
MaxLen == 3         \* length of the strings normalizeUrl is applied to
MaxLines == 2       \* lines of the bodies parseResourceMetadata is applied to

(***************************************************************************)
(* Strings.                                                                *)
(***************************************************************************)
StartsWith(s, p) == Len(s) >= Len(p) /\ SubSeq(s, 1, Len(p)) = p

EndsWith(s, p) == Len(s) >= Len(p) /\ SubSeq(s, Len(s) - Len(p) + 1, Len(s)) = p

\* String.prototype.includes
Includes(s, p) == \E i \in 1..(Len(s) - Len(p) + 1) : SubSeq(s, i, i + Len(p) - 1) = p

\* String.prototype.substring(1)
Substring1(s) == SubSeq(s, 2, Len(s))

(***************************************************************************)
(* JavaScript values.                                                      *)
(***************************************************************************)
Undefined == [t |-> "undefined"]
Null == [t |-> "null"]
Num == [t |-> "number"]
True == [t |-> "boolean", v |-> TRUE]
False == [t |-> "boolean", v |-> FALSE]
Arr == [t |-> "array"]
JStr(s) == [t |-> "string", v |-> s]
JBlob(b) == [t |-> "blob", v |-> b]
JObj(o) == [t |-> "object", v |-> o]

\* ToBoolean, as applied by ! and ||
Truthy(x) ==
  CASE x.t \in {"undefined", "null"} -> FALSE
    [] x.t = "boolean" -> x.v
    [] x.t = "string" -> x.v # <<>>
    [] OTHER -> TRUE

\* the typeof operator
TypeOf(x) ==
  CASE x.t \in {"null", "array", "blob", "object", "params", "request"} -> "object"
    [] OTHER -> x.t

(***************************************************************************)
(* utils: normalizeUrl.                                                    *)
(***************************************************************************)
Schemes == {"https:"}

RECURSIVE SkipSlashes(_)
SkipSlashes(s) == IF s # <<>> /\ Head(s) = "/" THEN SkipSlashes(Tail(s)) ELSE s

LdpContainer == "http://www.w3.org/ns/ldp#Container"
LdpResource == "http://www.w3.org/ns/ldp#Resource"
DcFormat == "http://purl.org/dc/terms/format"

\* the URLs the model keeps as one atom each
OpaqueUrls == {LdpContainer, LdpResource, DcFormat}

\* atoms of letters: in front of a scheme atom they make a longer scheme
SchemeChars == {"a", "A", "b", "B", "c", "d", "h", "i", "x", "pod"}

\* new URL(s) does not throw: the special scheme https and a non-empty host,
\* or a scheme that is not special, which needs no host
IsAbsolute(s) ==
  \/ s # <<>> /\ Head(s) \in OpaqueUrls
  \/ \E i \in 1..Len(s) :
       /\ s[i] \in Schemes
       /\ \A j \in 1..(i - 1) : s[j] \in SchemeChars
       /\ i = 1 => SkipSlashes(Tail(s)) # <<>>

\* normalizeUrl that returns the serialization of the parsed URL
normalizeUrlHref(uri, baseUrl) ==
  IF IsAbsolute(uri)
  THEN IF Head(uri) \in Schemes
       THEN LET rest == SkipSlashes(Tail(uri))
            IN  <<Head(uri), "/", "/">> \o rest
                \o (IF Includes(rest, <<"/">>) THEN <<>> ELSE <<"/">>)
       ELSE uri
  ELSE LET base == IF EndsWith(baseUrl, <<"/">>) THEN baseUrl ELSE baseUrl \o <<"/">>
           path == IF StartsWith(uri, <<"/">>) THEN Substring1(uri) ELSE uri
       IN  base \o path

normalizeUrl(uri, baseUrl) ==
  IF IsAbsolute(uri) THEN uri
  ELSE LET base == IF EndsWith(baseUrl, <<"/">>) THEN baseUrl ELSE baseUrl \o <<"/">>
           path == IF StartsWith(uri, <<"/">>) THEN Substring1(uri) ELSE uri
       IN  base \o path

(***************************************************************************)
(* utils: parseResourceMetadata.                                           *)
(***************************************************************************)
NL == "\n"
SP == " "

\* atoms whose text begins with "http"
HttpAtoms == Schemes \cup OpaqueUrls \cup {"http://www.w3.org/ns/ldp#"}

\* String.prototype.split('\n')
RECURSIVE SplitLines(_, _)
SplitLines(s, cur) ==
  IF s = <<>> THEN <<cur>>
  ELSE IF Head(s) = NL THEN <<cur>> \o SplitLines(Tail(s), <<>>)
  ELSE SplitLines(Tail(s), Append(cur, Head(s)))

RECURSIVE TrimStart(_)
TrimStart(s) == IF s # <<>> /\ Head(s) = SP THEN TrimStart(Tail(s)) ELSE s

RECURSIVE TrimEnd(_)
TrimEnd(s) == IF s # <<>> /\ s[Len(s)] = SP THEN TrimEnd(SubSeq(s, 1, Len(s) - 1)) ELSE s

\* String.prototype.trim
Trim(s) == TrimEnd(TrimStart(s))

\* the positions i, j of the leftmost match of open ([^close]+) close
DelimMatches(s, open, close) ==
  {ij \in (1..Len(s)) \X (1..Len(s)) :
     /\ s[ij[1]] = open
     /\ ij[2] > ij[1] + 1
     /\ s[ij[2]] = close
     /\ \A k \in (ij[1] + 1)..(ij[2] - 1) : s[k] # close}

\* MatchDelimited that takes the rightmost match
MatchDelimitedLast(s, open, close) ==
  LET M == DelimMatches(s, open, close)
  IN  IF M = {} THEN <<>>
      ELSE LET m == CHOOSE ij \in M : \A o \in M : ij[1] >= o[1]
           IN  SubSeq(s, m[1] + 1, m[2] - 1)

\* capture group 1 of s.match(/open([^close]+)close/), <<>> when there is no match
MatchDelimited(s, open, close) ==
  LET M == DelimMatches(s, open, close)
  IN  IF M = {} THEN <<>>
      ELSE LET m == CHOOSE ij \in M : \A o \in M : ij[1] <= o[1]
           IN  SubSeq(s, m[1] + 1, m[2] - 1)

\* trimmedLine.includes('<http')
IncludesLtHttp(s) == \E i \in 1..(Len(s) - 1) : s[i] = "<" /\ s[i + 1] \in HttpAtoms

\* ParseLine that does not skip the container itself
ParseLineKeepSelf(st, line) ==
  LET t == Trim(line)
      um == MatchDelimited(t, "<", ">")
      newSubj == IncludesLtHttp(t) /\ Includes(t, <<">">>) /\ um # <<>>
      cur1 == IF newSubj THEN um ELSE st.cur
      isC1 == IF newSubj THEN FALSE ELSE st.isC
      ct1 == IF newSubj THEN <<>> ELSE st.ct
      isC2 == isC1 \/ Includes(t, <<LdpContainer>>)
      cm == MatchDelimited(t, "\"", "\"")
      ct2 == IF Includes(t, <<DcFormat>>) /\ cm # <<>> THEN cm ELSE ct1
      closes == cur1 # <<>> /\ (EndsWith(t, <<".">>) \/ EndsWith(t, <<";">>) \/ t = <<>>)
  IN  IF closes
      THEN [cur |-> <<>>, isC |-> isC2, ct |-> ct2,
            res |-> IF TRUE
                    THEN Append(st.res, [uri |-> cur1,
                                         type |-> IF isC2 THEN "container" ELSE "resource",
                                         contentType |-> ct2])
                    ELSE st.res,
            self |-> st.self]
      ELSE [cur |-> cur1, isC |-> isC2, ct |-> ct2, res |-> st.res, self |-> st.self]

\* one iteration of the loop over the lines; st = [cur, isC, ct, res]
\* ParseLine that keeps the container flag and the content type of the subject
\* before when a line opens a new subject
ParseLineNoReset(st, line) ==
  LET t == Trim(line)
      um == MatchDelimited(t, "<", ">")
      newSubj == IncludesLtHttp(t) /\ Includes(t, <<">">>) /\ um # <<>>
      cur1 == IF newSubj THEN um ELSE st.cur
      isC2 == st.isC \/ Includes(t, <<LdpContainer>>)
      cm == MatchDelimited(t, "\"", "\"")
      ct2 == IF Includes(t, <<DcFormat>>) /\ cm # <<>> THEN cm ELSE st.ct
      closes == cur1 # <<>> /\ (EndsWith(t, <<".">>) \/ EndsWith(t, <<";">>) \/ t = <<>>)
  IN  IF closes
      THEN [cur |-> <<>>, isC |-> isC2, ct |-> ct2,
            res |-> IF cur1 # st.self
                    THEN Append(st.res, [uri |-> cur1,
                                         type |-> IF isC2 THEN "container" ELSE "resource",
                                         contentType |-> ct2])
                    ELSE st.res,
            self |-> st.self]
      ELSE [cur |-> cur1, isC |-> isC2, ct |-> ct2, res |-> st.res, self |-> st.self]

ParseLine(st, line) ==
  LET t == Trim(line)
      um == MatchDelimited(t, "<", ">")
      newSubj == IncludesLtHttp(t) /\ Includes(t, <<">">>) /\ um # <<>>
      cur1 == IF newSubj THEN um ELSE st.cur
      isC1 == IF newSubj THEN FALSE ELSE st.isC
      ct1 == IF newSubj THEN <<>> ELSE st.ct
      isC2 == isC1 \/ Includes(t, <<LdpContainer>>)
      cm == MatchDelimited(t, "\"", "\"")
      ct2 == IF Includes(t, <<DcFormat>>) /\ cm # <<>> THEN cm ELSE ct1
      closes == cur1 # <<>> /\ (EndsWith(t, <<".">>) \/ EndsWith(t, <<";">>) \/ t = <<>>)
  IN  IF closes
      THEN [cur |-> <<>>, isC |-> isC2, ct |-> ct2,
            res |-> IF cur1 # st.self
                    THEN Append(st.res, [uri |-> cur1,
                                         type |-> IF isC2 THEN "container" ELSE "resource",
                                         contentType |-> ct2])
                    ELSE st.res,
            self |-> st.self]
      ELSE [cur |-> cur1, isC |-> isC2, ct |-> ct2, res |-> st.res, self |-> st.self]

\* ParseLines that emits the subject still open at the end of the input
RECURSIVE ParseLinesFlush(_, _)
ParseLinesFlush(st, lines) ==
  IF lines = <<>>
  THEN IF st.cur # <<>> /\ st.cur # st.self
       THEN [st EXCEPT !.res = Append(st.res, [uri |-> st.cur,
                                               type |-> IF st.isC THEN "container" ELSE "resource",
                                               contentType |-> st.ct])]
       ELSE st
  ELSE ParseLinesFlush(ParseLine(st, Head(lines)), Tail(lines))

RECURSIVE ParseLines(_, _)
ParseLines(st, lines) ==
  IF lines = <<>> THEN st ELSE ParseLines(ParseLine(st, Head(lines)), Tail(lines))

\* children carry contentType <<>> where the code leaves it undefined
parseResourceMetadata(turtleContent, containerUrl) ==
  ParseLines([cur |-> <<>>, isC |-> FALSE, ct |-> <<>>, res |-> <<>>, self |-> containerUrl],
             SplitLines(turtleContent, <<>>)).res

(***************************************************************************)
(* utils: getFilenameFromUrl.                                              *)
(***************************************************************************)
\* atoms that end the path of a URL (fragment, query)
PathEnders == {"#me", "?q"}

RECURSIVE TakePath(_)
TakePath(s) ==
  IF s = <<>> \/ Head(s) \in PathEnders THEN <<>> ELSE <<Head(s)>> \o TakePath(Tail(s))

\* new URL(url).pathname, for a url that parses: what follows the host
Pathname(url) ==
  LET afterHost == Tail(SkipSlashes(Tail(url)))
      p == TakePath(afterHost)
  IN  IF p = <<>> THEN <<"/">> ELSE p

RECURSIVE LastSegment(_)
LastSegment(s) ==
  IF s = <<>> \/ s[Len(s)] = "/" THEN <<>>
  ELSE Append(LastSegment(SubSeq(s, 1, Len(s) - 1)), s[Len(s)])

\* the last segment of the pathname of a URL the model keeps as one atom
OpaqueFilename(a) ==
  IF a = DcFormat THEN <<"f", "o", "r", "m", "a", "t">> ELSE <<"l", "d", "p">>

\* defined where new URL(url) does not throw
getFilenameFromUrl(url) ==
  IF Head(url) \in OpaqueUrls THEN OpaqueFilename(Head(url)) ELSE LastSegment(Pathname(url))

LowerAtom(a) ==
  CASE a = "A" -> "a"
    [] a = "B" -> "b"
    [] OTHER -> a

\* String.prototype.toLowerCase
toLowerCase(s) == [i \in 1..Len(s) |-> LowerAtom(s[i])]

(***************************************************************************)
(* JSON.                                                                   *)
(***************************************************************************)
Objs == {"o1"}

\* JSON.stringify of a value that is neither a string nor a Blob
JSONstringify(x) ==
  CASE x.t = "object" -> JStr(<<"{", x.v, "}">>)
    [] x.t = "number" -> JStr(<<"42">>)
    [] x.t = "null" -> JStr(<<"null">>)
    [] x.t = "boolean" -> JStr(<<IF x.v THEN "true" ELSE "false">>)
    [] x.t = "array" -> JStr(<<"[", "]">>)
    [] OTHER -> Undefined

\* JSON.parse: Undefined stands for a SyntaxError
JSONparse(s) ==
  CASE Len(s) = 3 /\ s[1] = "{" /\ s[2] \in Objs /\ s[3] = "}" -> JObj(s[2])
    [] s = <<"42">> -> Num
    [] s = <<"null">> -> Null
    [] s = <<"true">> -> True
    [] s = <<"false">> -> False
    [] s = <<"[", "]">> -> Arr
    [] OTHER -> Undefined

(***************************************************************************)
(* Media types, headers, transport responses.                              *)
(***************************************************************************)
TextTurtle == <<"text/", "turtle">>
TextPlain == <<"text/", "plain">>
AppJson == <<"application/json">>
AppLdJson == <<"application/ld+json">>
ImagePng == <<"image/png">>

AcceptHeader == AppLdJson \o <<", ">> \o AppJson \o <<", ">> \o TextTurtle
LinkHeader == <<"<", "http://www.w3.org/ns/ldp#BasicContainer", ">", "; rel=\"type\"">>

\* Response.ok
Ok(r) == r.status \in 200..299

\* getPermissions that takes its catch branch
getPermissionsDegraded == [t |-> "undefined"]

\* the static record of getPermissions
getPermissions == [read |-> TRUE, write |-> TRUE, append |-> TRUE, control |-> FALSE]

RelevanceTenths == 8

(***************************************************************************)
(* The state.                                                              *)
(***************************************************************************)
VARIABLES
  tools,         \* service.tools: the names of the registry, in order
  capabilities,  \* service.metadata.capabilities
  podUrl,        \* config.podUrl
  pc,            \* "idle", "waiting" (a transport call is in flight), "done"
  req,           \* the request of the current handleRequest invocation
  stack,         \* the frames of the invocation that wait for a result
  calls,         \* the transport calls the invocation has issued, in order
  readers,       \* readers[i]: the body readers called on the response of calls[i]
  outcomes,      \* outcomes[i]: how the transport settled calls[i]
  response,      \* what handleRequest returned
  logs,          \* the console.error lines of the invocation
  pod,           \* what the pod stores under each locator (used by PodSpec)
  prev,          \* the request and the response of the invocation before (PodSpec)
  rivals,        \* the calls of other invocations the pod has served (RaceSpec)
  fnArgs,        \* the arguments of the utils function applied on its own (NormalizeSpec)
  fnValue        \* the value that function returned

vars == <<tools, capabilities, podUrl, pc, req, stack, calls, readers, outcomes, response,
          logs, pod, prev, rivals, fnArgs, fnValue>>

\* what the dispatcher in front of one caller never touches
aside == <<rivals, fnArgs, fnValue>>

config == <<tools, capabilities, podUrl>>

NoResponse == [status |-> "none"]

Top(s) == s[Len(s)]
Pop(s) == SubSeq(s, 1, Len(s) - 1)

\* results handed from a callee to the frame that awaits it
Ret(v) == [k |-> "ret", v |-> v]
Thr(msg) == [k |-> "thr", msg |-> msg]
Resp(r, reread) == [k |-> "resp", r |-> r, reread |-> reread]

\* Issue that sends the call a second time without waiting for the first
IssueTwice(m, frame, call) ==
  IF Len(m.calls) >= MaxCalls THEN [m EXCEPT !.overflow = TRUE]
  ELSE [m EXCEPT !.stack = Append(@, frame),
                 !.calls = @ \o <<call, call>>,
                 !.readers = @ \o << <<>>, <<>> >>]

\* this.fetchFn(url, init): the call is recorded and the frame waits for it
Issue(m, frame, call) ==
  IF Len(m.calls) >= MaxCalls THEN [m EXCEPT !.overflow = TRUE]
  ELSE [m EXCEPT !.stack = Append(@, frame),
                 !.calls = Append(@, call),
                 !.readers = Append(@, <<>>)]

\* response.text(), .json() or .blob() on the response of the latest call
LogReader(m, name) == [m EXCEPT !.readers[Len(m.calls)] = Append(@, name)]

GetCall(url) ==
  [method |-> "GET", url |-> url, accept |-> AcceptHeader,
   contentType |-> Undefined, link |-> <<>>, body |-> Undefined]

SearchDepth(stk) == Cardinality({i \in 1..Len(stk) : stk[i].fn = "search"})

\* a property of a value that may not be an object of parameters
Field(params, name) == IF params.t = "params" THEN params.v[name] ELSE Undefined

\* ToolResult that leaves the children of list_container undefined when the
\* read has none
ToolResultChildrenUndefined(name, v) ==
  CASE name = "delete_resource" -> [success |-> v]
    [] name = "list_container" ->
         [container |-> v.resource,
          children |-> IF "children" \in DOMAIN v THEN v.children ELSE Undefined]
    [] name = "create_container" -> [container |-> v.resource]
    [] name = "search" -> [results |-> v]
    [] OTHER -> v

\* the return of an executor, as handleRequest wraps it
ToolResult(name, v) ==
  CASE name = "delete_resource" -> [success |-> v]
    [] name = "list_container" ->
         [container |-> v.resource,
          children |-> IF "children" \in DOMAIN v THEN v.children ELSE <<>>]
    [] name = "create_container" -> [container |-> v.resource]
    [] name = "search" -> [results |-> v]
    [] OTHER -> v

\* FailedMessage without the status code
FailedMessageNoStatus(failed, r) == <<failed>> \o r.statusText

\* `Failed to <what>: ${response.status} ${response.statusText}`
FailedMessage(failed, r) == <<failed, ToString(r.status), " ">> \o r.statusText

\* WrappedMessage without the locator
WrappedMessageNoUrl(what, url, msg) == <<what, ": ">> \o msg

\* `Error <what> ${url}: ${error.message}`, the catch block of the four operations
WrappedMessage(what, url, msg) == <<what>> \o url \o <<": ">> \o msg

\* HandleReturn whose error response also carries a result
HandleReturnBoth(name, out) ==
  IF out.k = "ret"
  THEN [status |-> "success", result |-> ToolResult(name, out.v)]
  ELSE [status |-> "error", error |-> out.msg, result |-> Undefined]

\* the two return statements of handleRequest
HandleReturn(name, out) ==
  IF out.k = "ret"
  THEN [status |-> "success", result |-> ToolResult(name, out.v)]
  ELSE [status |-> "error", error |-> out.msg]

\* FindTool that falls back on the first tool
FindToolOrFirst(registry, action) ==
  IF \E i \in 1..Len(registry) : <<registry[i]>> = action
  THEN CHOOSE i \in 1..Len(registry) : <<registry[i]>> = action
  ELSE 1

\* service.tools.find(t => t.name === action): the index of the tool, 0 when there is none
FindTool(registry, action) ==
  IF \E i \in 1..Len(registry) : <<registry[i]>> = action
  THEN CHOOSE i \in 1..Len(registry) :
         /\ <<registry[i]>> = action
         /\ \A j \in 1..(i - 1) : <<registry[j]>> # action
  ELSE 0

TypeErrorMsg(x) ==
  IF x.t \in {"undefined", "null"}
  THEN <<"Cannot read properties of ", x.t>>
  ELSE <<"is not a function">>

(***************************************************************************)
(* SolidClient and the executors of the tools, as one machine: Resume      *)
(* hands a result to the frame on top of the stack and runs the code on    *)
(* to the next transport call, or to the return of handleRequest.          *)
(***************************************************************************)
RECURSIVE Resume(_, _), readResource(_, _, _), searchResources(_, _, _, _), SearchLoop(_, _)

\* ResourceType that never says container
ResourceTypeAlwaysResource(isContainer) == "resource"

\* isContainer ? 'container' : 'resource'
ResourceType(isContainer) == IF isContainer THEN "container" ELSE "resource"

\* AddHit that puts the hit in front of the results
AddHitFirst(results, child) == <<child @@ [relevance |-> RelevanceTenths]>> \o results

\* searchResults.push({...child, relevance: 0.8})
AddHit(results, child) == Append(results, child @@ [relevance |-> RelevanceTenths])

\* BodyReader without the branch of the text types
BodyReaderNoText(contentType) ==
  IF Includes(contentType, AppJson) \/ Includes(contentType, AppLdJson) THEN "json"
  ELSE "blob"

\* BodyReader without the branch of application/ld+json
BodyReaderJsonOnly(contentType) ==
  IF Includes(contentType, AppJson) THEN "json"
  ELSE IF Includes(contentType, <<"text/">>) THEN "text"
  ELSE "blob"

\* the body reader readResource picks for the content
BodyReader(contentType) ==
  IF Includes(contentType, AppJson) \/ Includes(contentType, AppLdJson) THEN "json"
  ELSE IF Includes(contentType, <<"text/">>) THEN "text"
  ELSE "blob"

\* Decode that hands every body over as a Blob
DecodeAsBlob(reader, body) == JBlob(body)

\* what response.json(), .text() and .blob() resolve to; Undefined: json() rejects
Decode(reader, body) ==
  CASE reader = "json" -> JSONparse(body)
    [] reader = "text" -> JStr(body)
    [] OTHER -> JBlob(body)

\* isContainer that searches for the namespace of ldp
isContainerByNamespace(r) ==
  \E i \in 1..Len(r.body) : r.body[i] \in {LdpContainer, "http://www.w3.org/ns/ldp#"}

\* body.includes('http://www.w3.org/ns/ldp#Container'), on the text of the response
isContainer(r) == Includes(r.body, <<LdpContainer>>)

\* the part of readResource that follows the GET
ReadAfterGet(m, f, out) ==
  LET wrap(msg) == Thr(WrappedMessage("Error reading resource ", f.url, msg))
  IN  IF out.k = "thr" THEN Resume(m, wrap(out.msg))
      ELSE IF ~Ok(out.r)
      THEN Resume(m, wrap(FailedMessage("Failed to read resource: ", out.r)))
      ELSE
        LET r == out.r
            contentType == r.ct
            turtle == Includes(contentType, TextTurtle)
            m1 == IF turtle THEN LogReader(m, "text") ELSE m
            container == turtle /\ isContainer(r)
            resource == [uri |-> f.url,
                         type |-> ResourceType(container),
                         contentType |-> contentType,
                         modified |-> r.lm,
                         size |-> IF r.cl = <<>> THEN Undefined ELSE Num,
                         permissions |-> getPermissions]
            reader == BodyReader(contentType)
            m2 == IF f.inc THEN LogReader(m1, reader) ELSE m1
            content == Decode(reader, r.body)
            result == IF f.inc THEN [resource |-> resource, content |-> content]
                      ELSE [resource |-> resource]
        IN  IF f.inc /\ turtle /\ out.reread = "throws"
            THEN Resume(m2, wrap(<<"Body is unusable">>))
            ELSE IF f.inc /\ reader = "json" /\ content.t = "undefined"
            THEN Resume(m2, wrap(<<"Unexpected token">>))
            ELSE IF container
            THEN Issue([m2 EXCEPT !.stack = Append(@, [fn |-> "readList", url |-> f.url,
                                                       result |-> result])],
                       [fn |-> "listGet", url |-> f.url], GetCall(f.url))
            ELSE Resume(m2, Ret(result))

\* the part of listContainerContents that follows the GET
listContainerContents(m, f, out) ==
  LET wrap(msg) == Thr(<<"Error listing container contents: ">> \o msg)
  IN  IF out.k = "thr" THEN Resume(m, wrap(out.msg))
      ELSE IF ~Ok(out.r)
      THEN Resume(m, wrap(FailedMessage("Failed to list container contents: ", out.r)))
      ELSE Resume(LogReader(m, "text"), Ret(parseResourceMetadata(out.r.body, f.url)))

\* AfterPut that returns a descriptor without reading the resource back
AfterPutNoReadBack(m, f, out, what, failed) ==
  LET wrap(msg) == Thr(WrappedMessage(what, f.url, msg))
  IN  IF out.k = "thr" THEN Resume(m, wrap(out.msg))
      ELSE IF ~Ok(out.r)
      THEN Resume(m, wrap(FailedMessage(failed, out.r)))
      ELSE Resume(m, Ret([resource |-> [uri |-> f.url, type |-> "resource"]]))

\* AfterPut that reads the resource back whatever the status of the PUT
AfterPutAnyStatus(m, f, out, what, failed) ==
  LET wrap(msg) == Thr(WrappedMessage(what, f.url, msg))
  IN  IF out.k = "thr" THEN Resume(m, wrap(out.msg))
      ELSE readResource(m, JStr(f.url), TRUE)

\* the part of writeResource and of createContainer that follows the PUT;
\* the read is returned without await, so its failure passes the catch block by
AfterPut(m, f, out, what, failed) ==
  LET wrap(msg) == Thr(WrappedMessage(what, f.url, msg))
  IN  IF out.k = "thr" THEN Resume(m, wrap(out.msg))
      ELSE IF ~Ok(out.r)
      THEN Resume(m, wrap(FailedMessage(failed, out.r)))
      ELSE readResource(m, JStr(f.url), TRUE)

\* DeleteAfter that does not look at response.ok
DeleteAfterIgnoreStatus(m, f, out) ==
  IF out.k = "thr"
  THEN Resume(m, Thr(WrappedMessage("Error deleting resource ", f.url, out.msg)))
  ELSE Resume(m, Ret(TRUE))

\* the part of deleteResource that follows the DELETE
DeleteAfter(m, f, out) ==
  LET wrap(msg) == Thr(WrappedMessage("Error deleting resource ", f.url, msg))
  IN  IF out.k = "thr" THEN Resume(m, wrap(out.msg))
      ELSE IF ~Ok(out.r)
      THEN Resume(m, wrap(FailedMessage("Failed to delete resource: ", out.r)))
      ELSE Resume(m, Ret(TRUE))

\* the catch block of searchResources
SearchCatch(m, msg) ==
  Resume([m EXCEPT !.logs = Append(@, <<"Error searching resources: ">> \o msg)], Ret(<<>>))

Resume(m, out) ==
  LET f == Top(m.stack)
      p == [m EXCEPT !.stack = Pop(@)]
  IN  CASE f.fn = "tool" ->
             [p EXCEPT !.response = HandleReturn(f.name, out)]
        [] f.fn = "readGet" -> ReadAfterGet(p, f, out)
        [] f.fn = "listGet" -> listContainerContents(p, f, out)
        [] f.fn = "readList" ->
             IF out.k = "ret"
             THEN Resume(p, Ret(f.result @@ [children |-> out.v]))
             ELSE Resume(p, Thr(WrappedMessage("Error reading resource ", f.url, out.msg)))
        [] f.fn = "writePut" ->
             AfterPut(p, f, out, "Error writing resource ", "Failed to write resource: ")
        [] f.fn = "createPut" ->
             AfterPut(p, f, out, "Error creating container ", "Failed to create container: ")
        [] f.fn = "deleteReq" -> DeleteAfter(p, f, out)
        [] f.fn = "search" ->
             IF out.k = "thr" THEN SearchCatch(p, out.msg)
             ELSE IF f.st = "read"
             THEN IF "children" \notin DOMAIN out.v THEN Resume(p, Ret(<<>>))
                  ELSE IF Len(out.v.children) = 0 THEN Resume(p, Ret(<<>>))
                  ELSE IF f.term.t # "string" THEN SearchCatch(p, TypeErrorMsg(f.term))
                  ELSE SearchLoop(p, [f EXCEPT !.children = out.v.children, !.idx = 1,
                                               !.lower = toLowerCase(f.term.v)])
             ELSE SearchLoop(p, [f EXCEPT !.results = @ \o out.v, !.idx = @ + 1])

\* readResource up to its GET; normalizeUrl runs before the try block
readResource(m, uri, includeContent) ==
  IF uri.t # "string" THEN Resume(m, Thr(TypeErrorMsg(uri)))
  ELSE LET resourceUrl == normalizeUrl(uri.v, podUrl)
       IN  Issue(m, [fn |-> "readGet", url |-> resourceUrl, inc |-> includeContent],
                 GetCall(resourceUrl))

\* searchResources up to the GET of its readResource
searchResources(m, containerUri, searchTerm, recursive) ==
  IF SearchDepth(m.stack) >= MaxDepth THEN [m EXCEPT !.overflow = TRUE]
  ELSE readResource([m EXCEPT !.stack = Append(@, [fn |-> "search", st |-> "read",
                                                   term |-> searchTerm,
                                                   recursive |-> recursive,
                                                   children |-> <<>>, idx |-> 0,
                                                   lower |-> <<>>, results |-> <<>>])],
                    containerUri, FALSE)

\* SearchLoop that comes back to the same child after the search of a container
SearchLoopSameChild(m, f) ==
  IF f.idx > Len(f.children) THEN Resume(m, Ret(f.results))
  ELSE LET child == f.children[f.idx]
       IN  IF ~IsAbsolute(child.uri) THEN SearchCatch(m, <<"Invalid URL">>)
           ELSE LET filename == getFilenameFromUrl(child.uri)
                    matchesFilename == Includes(toLowerCase(filename), f.lower)
                    results == IF matchesFilename
                               THEN AddHit(f.results, child)
                               ELSE f.results
                IN  IF f.recursive /\ child.type = "container"
                    THEN searchResources(
                           [m EXCEPT !.stack = Append(@, [f EXCEPT !.results = results,
                                                                   !.st = "child",
                                                                   !.idx = @ - 1])],
                           JStr(child.uri), f.term, f.recursive)
                    ELSE SearchLoop(m, [f EXCEPT !.results = results, !.idx = @ + 1])

\* SearchLoop that, when recursive, searches inside every child, whatever its type
SearchLoopAnyChild(m, f) ==
  IF f.idx > Len(f.children) THEN Resume(m, Ret(f.results))
  ELSE LET child == f.children[f.idx]
       IN  IF ~IsAbsolute(child.uri) THEN SearchCatch(m, <<"Invalid URL">>)
           ELSE LET filename == getFilenameFromUrl(child.uri)
                    matchesFilename == Includes(toLowerCase(filename), f.lower)
                    results == IF matchesFilename
                               THEN AddHit(f.results, child)
                               ELSE f.results
                IN  IF f.recursive
                    THEN searchResources(
                           [m EXCEPT !.stack = Append(@, [f EXCEPT !.results = results,
                                                                   !.st = "child"])],
                           JStr(child.uri), f.term, f.recursive)
                    ELSE SearchLoop(m, [f EXCEPT !.results = results, !.idx = @ + 1])

\* the for loop of searchResources, from child f.idx on
SearchLoop(m, f) ==
  IF f.idx > Len(f.children) THEN Resume(m, Ret(f.results))
  ELSE LET child == f.children[f.idx]
       IN  IF ~IsAbsolute(child.uri) THEN SearchCatch(m, <<"Invalid URL">>)
           ELSE LET filename == getFilenameFromUrl(child.uri)
                    matchesFilename == Includes(toLowerCase(filename), f.lower)
                    results == IF matchesFilename
                               THEN AddHit(f.results, child)
                               ELSE f.results
                IN  IF f.recursive /\ child.type = "container"
                    THEN searchResources(
                           [m EXCEPT !.stack = Append(@, [f EXCEPT !.results = results,
                                                                   !.st = "child"])],
                           JStr(child.uri), f.term, f.recursive)
                    ELSE SearchLoop(m, [f EXCEPT !.results = results, !.idx = @ + 1])

\* writeResource that keeps the caller's content type for serialized content
writeResourceKeepType(m, uri, content, contentType) ==
  IF uri.t # "string" THEN Resume(m, Thr(TypeErrorMsg(uri)))
  ELSE LET resourceUrl == normalizeUrl(uri.v, podUrl)
           verbatim == content.t \in {"string", "blob"}
           body == IF verbatim THEN content ELSE JSONstringify(content)
       IN  Issue(m, [fn |-> "writePut", url |-> resourceUrl],
                 [method |-> "PUT", url |-> resourceUrl, accept |-> AcceptHeader,
                  contentType |-> contentType, link |-> <<>>, body |-> body])

writeResource(m, uri, content, contentType) ==
  IF uri.t # "string" THEN Resume(m, Thr(TypeErrorMsg(uri)))
  ELSE LET resourceUrl == normalizeUrl(uri.v, podUrl)
           verbatim == content.t \in {"string", "blob"}
           body == IF verbatim THEN content ELSE JSONstringify(content)
           header == IF verbatim THEN contentType ELSE JStr(AppJson)
       IN  Issue(m, [fn |-> "writePut", url |-> resourceUrl],
                 [method |-> "PUT", url |-> resourceUrl, accept |-> AcceptHeader,
                  contentType |-> header, link |-> <<>>, body |-> body])

\* deleteResource that sends the DELETE to the locator as given
deleteResourceRaw(m, uri) ==
  IF uri.t # "string" THEN Resume(m, Thr(TypeErrorMsg(uri)))
  ELSE Issue(m, [fn |-> "deleteReq", url |-> uri.v],
             [method |-> "DELETE", url |-> uri.v, accept |-> AcceptHeader,
              contentType |-> Undefined, link |-> <<>>, body |-> Undefined])

deleteResource(m, uri) ==
  IF uri.t # "string" THEN Resume(m, Thr(TypeErrorMsg(uri)))
  ELSE LET resourceUrl == normalizeUrl(uri.v, podUrl)
       IN  Issue(m, [fn |-> "deleteReq", url |-> resourceUrl],
                 [method |-> "DELETE", url |-> resourceUrl, accept |-> AcceptHeader,
                  contentType |-> Undefined, link |-> <<>>, body |-> Undefined])

\* createContainer whose PUT carries no Link header
createContainerNoLink(m, uri) ==
  IF uri.t # "string" THEN Resume(m, Thr(TypeErrorMsg(uri)))
  ELSE LET containerUrl == normalizeUrl(uri.v, podUrl)
       IN  Issue(m, [fn |-> "createPut", url |-> containerUrl],
                 [method |-> "PUT", url |-> containerUrl, accept |-> AcceptHeader,
                  contentType |-> JStr(TextTurtle), link |-> <<>>, body |-> Undefined])

createContainer(m, uri) ==
  IF uri.t # "string" THEN Resume(m, Thr(TypeErrorMsg(uri)))
  ELSE LET containerUrl == normalizeUrl(uri.v, podUrl)
       IN  Issue(m, [fn |-> "createPut", url |-> containerUrl],
                 [method |-> "PUT", url |-> containerUrl, accept |-> AcceptHeader,
                  contentType |-> JStr(TextTurtle), link |-> LinkHeader, body |-> Undefined])

\* tool.execute(request.parameters)
Execute(m, name, params) ==
  CASE name = "read_resource" ->
         LET ic == Field(params, "include_content")
         IN  readResource(m, Field(params, "uri"),
                          IF ic.t = "undefined" THEN TRUE ELSE Truthy(ic))
    [] name = "write_resource" ->
         writeResource(m, Field(params, "uri"), Field(params, "content"),
                       Field(params, "content_type"))
    [] name = "delete_resource" -> deleteResource(m, Field(params, "uri"))
    [] name = "list_container" -> readResource(m, Field(params, "uri"), FALSE)
    [] name = "create_container" -> createContainer(m, Field(params, "uri"))
    [] name = "search" ->
         searchResources(m, Field(params, "container_uri"), Field(params, "search_term"),
                         Truthy(Field(params, "recursive")))

Fresh ==
  [stack |-> <<>>, calls |-> <<>>, readers |-> <<>>, response |-> NoResponse,
   logs |-> <<>>, overflow |-> FALSE]

\* handleRequest with the registry looked up before the parameters are checked
handleRequestLookupFirst(request) ==
  LET error(msg) == [Fresh EXCEPT !.response = HandleReturn("", Thr(msg))]
  IN  IF request.t \in {"null", "undefined"} THEN error(TypeErrorMsg(request))
      ELSE
        LET action == IF request.t = "request" THEN request.v.action ELSE Undefined
            parameters == IF request.t = "request" THEN request.v.parameters ELSE Undefined
        IN  IF ~Truthy(action) \/ TypeOf(action) # "string"
            THEN error(<<"Invalid request", ": missing or invalid action">>)
            ELSE IF FindTool(tools, action.v) = 0
            THEN error(<<"Unknown action: ">> \o action.v)
            ELSE IF ~Truthy(parameters) \/ TypeOf(parameters) # "object"
            THEN error(<<"Invalid request", ": missing or invalid parameters">>)
            ELSE LET name == tools[FindTool(tools, action.v)]
                 IN  Execute([Fresh EXCEPT !.stack = <<[fn |-> "tool", name |-> name]>>],
                             name, parameters)

\* handleRequest up to its first transport call, or to its return
handleRequest(request) ==
  LET error(msg) == [Fresh EXCEPT !.response = HandleReturn("", Thr(msg))]
  IN  IF request.t \in {"null", "undefined"} THEN error(TypeErrorMsg(request))
      ELSE
        LET action == IF request.t = "request" THEN request.v.action ELSE Undefined
            parameters == IF request.t = "request" THEN request.v.parameters ELSE Undefined
        IN  IF ~Truthy(action) \/ TypeOf(action) # "string"
            THEN error(<<"Invalid request", ": missing or invalid action">>)
            ELSE IF ~Truthy(parameters) \/ TypeOf(parameters) # "object"
            THEN error(<<"Invalid request", ": missing or invalid parameters">>)
            ELSE IF FindTool(tools, action.v) = 0
            THEN error(<<"Unknown action: ">> \o action.v)
            ELSE LET name == tools[FindTool(tools, action.v)]
                 IN  Execute([Fresh EXCEPT !.stack = <<[fn |-> "tool", name |-> name]>>],
                             name, parameters)

(***************************************************************************)
(* The values the model draws requests and transport responses from.       *)
(***************************************************************************)
Host == <<"https:", "/", "/", "pod">>
PodBases == {Host, Host \o <<"/">>}

\* the locator https://pod/c/ and three locators below it
Uc == Host \o <<"/", "c", "/">>
Uca == Uc \o <<"a">>
UcAb == Uc \o <<"A", "b">>
Ucd == Uc \o <<"d", "/">>

UriInputs == {JStr(<<"/", "c", "/">>), JStr(<<"c", "/">>), JStr(Uc), Undefined}

ToolNames == <<"read_resource", "write_resource", "delete_resource", "list_container",
               "create_container", "search">>

Capabilities == <<"read_resource", "write_resource", "delete_resource", "list_container",
                  "create_container">>

NoParams ==
  [uri |-> Undefined, include_content |-> Undefined, content |-> Undefined,
   content_type |-> Undefined, container_uri |-> Undefined, search_term |-> Undefined,
   recursive |-> Undefined]

Params(p) == [t |-> "params", v |-> p]

Hello == <<"h", "i">>

ReadParams ==
  {Params([NoParams EXCEPT !.uri = u, !.include_content = ic]) :
     u \in UriInputs, ic \in {Undefined, True, False}}

WriteParams ==
  {Params([NoParams EXCEPT !.uri = u, !.content = c, !.content_type = ct]) :
     u \in UriInputs,
     c \in {JStr(Hello), JBlob(<<"b">>), JObj("o1"), Undefined},
     ct \in {JStr(TextPlain), JStr(AppJson), Undefined}}

SearchParams ==
  {Params([NoParams EXCEPT !.container_uri = u, !.search_term = s, !.recursive = rc]) :
     u \in UriInputs,
     s \in {JStr(<<"a">>), JStr(<<"B">>), JStr(<<>>), Undefined},
     rc \in {Undefined, True, False}}

\* values of request.parameters that are not objects of parameters
OddParams == {Undefined, Null, Num, JStr(<<"x">>), Arr}

ParamsOf(name) ==
  CASE name = "write_resource" -> WriteParams
    [] name = "search" -> SearchParams
    [] OTHER -> ReadParams

Request(a, p) == [t |-> "request", v |-> [action |-> a, parameters |-> p]]

Requests ==
  {Null, Undefined, Num, JStr(<<"x">>)}
  \cup {Request(a, p) : a \in {Undefined, Null, Num, JStr(<<>>), JStr(<<"not_real">>)},
                        p \in OddParams \cup {Params(NoParams)}}
  \cup UNION {{Request(JStr(<<ToolNames[i]>>), p) :
                 p \in OddParams \cup {Params(NoParams)} \cup ParamsOf(ToolNames[i])} :
              i \in 1..Len(ToolNames)}

\* a container description: itself, the file a with a declared format, the container d/
TurtleLine(subject, rest) == <<"<">> \o subject \o <<">", SP>> \o rest
IsA(type) == <<"a", SP, "<", type, ">">>
Format(ct) == <<"<", DcFormat, ">", SP, "\"">> \o ct \o <<"\"">>

BodyContainer ==
  TurtleLine(Uc, IsA(LdpContainer) \o <<";", NL>>)
  \o TurtleLine(Uca, Format(TextPlain) \o <<".", NL>>)
  \o TurtleLine(Ucd, IsA(LdpContainer) \o <<".", NL>>)

BodyLeaf ==
  TurtleLine(Ucd, IsA(LdpContainer) \o <<";", NL>>)
  \o TurtleLine(UcAb, <<".">>)

\* a line whose first bracketed token is not a URL
BodyOdd ==
  <<"<", "x", ">", SP>> \o TurtleLine(Uca, IsA(LdpContainer) \o <<".">>)

Bodies == {<<>>, Hello, <<"{", "o1", "}">>, BodyContainer, BodyLeaf, BodyOdd}

MediaTypes == {<<>>, TextTurtle, TextPlain \o <<"; charset=utf-8">>, AppJson, AppLdJson, ImagePng}

Response(status, statusText, ct, body) ==
  [status |-> status, statusText |-> statusText, ct |-> ct, lm |-> <<"Wed">>,
   cl |-> <<"12">>, body |-> body]

Responses ==
  {Response(st, <<"OK">>, ct, b) : st \in {200, 201}, ct \in MediaTypes, b \in Bodies}
  \cup {Response(404, <<"Not Found">>, <<>>, <<>>),
        Response(500, <<"Internal Server Error">>, TextPlain, Hello)}

RejectMessages == {<<"Network error">>}

(***************************************************************************)
(* A pod that stores what is PUT.                                          *)
(***************************************************************************)
PodLocators == {Uc, Uca, Ucd}

Absent == [present |-> FALSE, ct |-> <<>>, body |-> <<>>]
Stored(ct, body) == [present |-> TRUE, ct |-> ct, body |-> body]

EmptyPod == [u \in PodLocators |-> Absent]
NoPrev == [req |-> Undefined, response |-> NoResponse]
NoArgs == [uri |-> <<>>, baseUrl |-> <<>>]

\* the description the pod gives of a container it has created
ContainerDescription(u) == TurtleLine(u, IsA(LdpContainer) \o <<".">>)

\* the pod after the call
PodAfter(p, call) ==
  IF call.url \notin PodLocators THEN p
  ELSE CASE call.method = "PUT" ->
              [p EXCEPT ![call.url] =
                 IF call.link = LinkHeader
                 THEN Stored(TextTurtle, ContainerDescription(call.url))
                 ELSE Stored(IF call.contentType.t = "string" THEN call.contentType.v ELSE <<>>,
                             IF call.body.t \in {"string", "blob"} THEN call.body.v ELSE <<>>)]
         [] call.method = "DELETE" -> [p EXCEPT ![call.url] = Absent]
         [] OTHER -> p

\* the response of the pod to the call
PodResponse(p, call) ==
  IF call.method = "PUT" /\ call.url \in PodLocators
  THEN Response(201, <<"Created">>, <<>>, <<>>)
  ELSE IF call.url \in PodLocators /\ p[call.url].present
  THEN Response(200, <<"OK">>, p[call.url].ct, p[call.url].body)
  ELSE Response(404, <<"Not Found">>, <<>>, <<>>)

(***************************************************************************)
(* The specification: one dispatcher, invocations one after the other,     *)
(* a transport that may answer each call in any way.                       *)
(***************************************************************************)
Init ==
  /\ tools = ToolNames
  /\ capabilities = Capabilities
  /\ podUrl \in PodBases
  /\ pc = "idle"
  /\ req = Undefined
  /\ stack = <<>>
  /\ calls = <<>>
  /\ readers = <<>>
  /\ outcomes = <<>>
  /\ response = NoResponse
  /\ logs = <<>>
  /\ pod = EmptyPod
  /\ prev = NoPrev
  /\ rivals = <<>>
  /\ fnArgs = NoArgs
  /\ fnValue = <<>>

\* what the model keeps of a response: whether it was 2xx, and its status if not
Outcome(r) ==
  IF Ok(r) THEN [k |-> "ok"]
  ELSE [k |-> "failed", status |-> r.status, statusText |-> r.statusText]

Current ==
  [stack |-> stack, calls |-> calls, readers |-> readers, response |-> response,
   logs |-> logs, overflow |-> FALSE]

Install(m) ==
  /\ ~m.overflow
  /\ stack' = m.stack
  /\ calls' = m.calls
  /\ readers' = m.readers
  /\ response' = m.response
  /\ logs' = m.logs
  /\ pc' = IF m.response.status = "none" THEN "waiting" ELSE "done"

\* a caller invokes handleRequest
HandleRequest ==
  /\ pc = "idle"
  /\ \E r \in Requests :
       /\ req' = r
       /\ Install(handleRequest(r))
  /\ outcomes' = <<>>
  /\ UNCHANGED <<config, pod, prev, aside>>

\* the transport resolves the call in flight with a response
TransportRespond ==
  /\ pc = "waiting"
  /\ \E r \in Responses, reread \in {"throws", "returns"} :
       /\ Install(Resume(Current, Resp(r, reread)))
       /\ outcomes' = Append(outcomes, Outcome(r))
  /\ UNCHANGED <<config, req, pod, prev, aside>>

\* the transport rejects the call in flight
TransportReject ==
  /\ pc = "waiting"
  /\ \E msg \in RejectMessages :
       /\ Install(Resume(Current, Thr(msg)))
       /\ outcomes' = Append(outcomes, [k |-> "rejected", msg |-> msg])
  /\ UNCHANGED <<config, req, pod, prev, aside>>

\* nothing of an invocation is kept once it has returned
Forget ==
  /\ pc' = "idle"
  /\ req' = Undefined
  /\ stack' = <<>>
  /\ calls' = <<>>
  /\ readers' = <<>>
  /\ outcomes' = <<>>
  /\ response' = NoResponse
  /\ logs' = <<>>

\* the caller takes the response
Return ==
  /\ pc = "done"
  /\ Forget
  /\ UNCHANGED <<config, pod, prev, aside>>

Next == HandleRequest \/ TransportRespond \/ TransportReject \/ Return

Spec == Init /\ [][Next]_vars

(***************************************************************************)
(* Properties of handleRequest.                                            *)
(***************************************************************************)
Done == pc = "done"
IsObjectRequest == req.t = "request"
ActionIs(name) == IsObjectRequest /\ req.v.action = JStr(<<name>>)
Param(name) == Field(req.v.parameters, name)
Registered(a) == \E i \in 1..Len(ToolNames) : <<ToolNames[i]>> = a
TransportFailed == \E i \in 1..Len(outcomes) : outcomes[i].k \in {"failed", "rejected"}
IsString(x) == x \in Seq(STRING)

\* C1: whatever the request (null, a primitive, an object whose executor
\* throws), handleRequest returns either {status: 'success', result} or
\* {status: 'error', error: <string>}, one of the two and nothing else, and
\* it returns nothing before it is done.
C1_ResponseShape ==
  /\ Done =>
       \/ response.status = "success" /\ DOMAIN response = {"status", "result"}
       \/ /\ response.status = "error"
          /\ DOMAIN response = {"status", "error"}
          /\ IsString(response.error)
  /\ ~Done => response = NoResponse

C1_Witness ==
  /\ Done
  /\ req = Null
  /\ response.status = "error"
  /\ calls = <<>>

\* C2: a request object whose action is missing, not a string or empty, or
\* whose parameters are missing or not a mapping, is answered by an error
\* that contains 'Invalid request', and no transport call is made.
C2_InvalidRequest ==
  (/\ Done
   /\ IsObjectRequest
   /\ \/ req.v.action.t # "string"
      \/ req.v.action = JStr(<<>>)
      \/ req.v.parameters.t # "params")
  => /\ response.status = "error"
     /\ Includes(response.error, <<"Invalid request">>)
     /\ calls = <<>>

\* C3: a request with a mapping of parameters and a non-empty action that
\* names no registered tool is answered by the error 'Unknown action: <name>',
\* and no transport call is made.
C3_UnknownAction ==
  (/\ Done
   /\ IsObjectRequest
   /\ req.v.action.t = "string"
   /\ req.v.action.v # <<>>
   /\ ~Registered(req.v.action.v)
   /\ req.v.parameters.t = "params")
  => /\ response = [status |-> "error", error |-> <<"Unknown action: ">> \o req.v.action.v]
     /\ calls = <<>>

C3_Witness ==
  /\ Done
  /\ ActionIs("not_real")
  /\ req.v.parameters.t = "params"
  /\ response.status = "error"

\* C4 as claimed: for each of the six actions, a transport call that rejects
\* or returns non-2xx makes handleRequest return status 'error'.
C4_Original == (Done /\ IsObjectRequest /\ TransportFailed) => response.status = "error"

\* C4 as amended: for the five actions other than search, a transport call
\* that rejects or returns non-2xx makes handleRequest return status 'error';
\* search catches the failure, logs it and still returns status 'success'.
C4_FailuresSurface ==
  (Done /\ IsObjectRequest /\ TransportFailed)
  => IF ActionIs("search")
     THEN response.status = "success" /\ logs # <<>>
     ELSE response.status = "error"

C4_Witness ==
  /\ Done
  /\ ActionIs("delete_resource")
  /\ Len(outcomes) = 1
  /\ outcomes[1].k = "failed"
  /\ response.status = "error"

\* C5: on no transport response is more than one body reader (text, json,
\* blob) called.
C5_SingleBodyRead == \A i \in 1..Len(readers) : Len(readers[i]) <= 1

\* C6: a read_resource whose GET returns non-2xx is answered by an error
\* that contains the status code and the status text, after one transport
\* call and without a body reader having been called.
C6_ReadNon2xx ==
  (/\ Done
   /\ ActionIs("read_resource")
   /\ Len(outcomes) >= 1
   /\ outcomes[1].k = "failed")
  => /\ response.status = "error"
     /\ Includes(response.error, <<ToString(outcomes[1].status)>>)
     /\ Includes(response.error, outcomes[1].statusText)
     /\ Len(calls) = 1
     /\ readers = << <<>> >>

C6_Witness ==
  /\ Done
  /\ ActionIs("read_resource")
  /\ outcomes = <<[k |-> "failed", status |-> 404, statusText |-> <<"Not Found">>]>>
  /\ response.status = "error"

\* C7: when the transport rejects a call of read, write, delete or
\* createContainer with message m, the response is an error whose message
\* contains the absolute locator of the call and m.
C7_RejectionSurfaces ==
  (Done /\ IsObjectRequest /\ ~ActionIs("search"))
  => \A i \in 1..Len(outcomes) :
       outcomes[i].k = "rejected"
       => /\ response.status = "error"
          /\ IsAbsolute(calls[i].url)
          /\ Includes(response.error, calls[i].url)
          /\ Includes(response.error, outcomes[i].msg)

C7_Witness ==
  /\ Done
  /\ ActionIs("write_resource")
  /\ Len(outcomes) = 2
  /\ outcomes[2].k = "rejected"
  /\ Includes(response.error, outcomes[2].msg)

\* C8: a write_resource of a string with content type text/plain, whose PUT
\* succeeds and whose read-back is served as text/plain, makes two transport
\* calls: the PUT of the string, verbatim and with the caller's content type,
\* to the locator, then a GET of the same locator.
C8_WriteCalls ==
  (/\ Done
   /\ ActionIs("write_resource")
   /\ Param("uri").t = "string"
   /\ Param("content").t = "string"
   /\ Param("content_type") = JStr(TextPlain)
   /\ outcomes[1].k = "ok"
   /\ Len(outcomes) >= 2 =>
        /\ outcomes[2].k = "ok"
        /\ response.status = "success"
        /\ Includes(response.result.resource.contentType, TextPlain))
  => /\ Len(calls) = 2
     /\ calls[1].method = "PUT"
     /\ calls[1].url = normalizeUrl(Param("uri").v, podUrl)
     /\ calls[1].body = Param("content")
     /\ calls[1].contentType = JStr(TextPlain)
     /\ calls[2].method = "GET"
     /\ calls[2].url = calls[1].url

C8_Witness ==
  /\ Done
  /\ ActionIs("write_resource")
  /\ Param("content") = JStr(Hello)
  /\ Param("content_type") = JStr(TextPlain)
  /\ outcomes = <<[k |-> "ok"], [k |-> "ok"]>>
  /\ response.status = "success"
  /\ Includes(response.result.resource.contentType, TextPlain)
  /\ Len(calls) = 2

\* C10: the PUT of writeResource carries the JSON serialization of the
\* content and Content-Type application/json when the content is neither a
\* string nor a Blob, whatever content type the caller gave; it carries the
\* content verbatim and the caller's content type otherwise.
C10_WriteBody ==
  (pc # "idle" /\ ActionIs("write_resource") /\ req.v.parameters.t = "params"
   /\ Param("uri").t = "string")
  => /\ calls[1].method = "PUT"
     /\ IF Param("content").t \in {"string", "blob"}
        THEN /\ calls[1].body = Param("content")
             /\ calls[1].contentType = Param("content_type")
        ELSE /\ calls[1].body = JSONstringify(Param("content"))
             /\ calls[1].contentType = JStr(AppJson)

C10_Witness ==
  /\ pc = "waiting"
  /\ ActionIs("write_resource")
  /\ Param("content") = JObj("o1")
  /\ Param("content_type") = JStr(TextPlain)
  /\ calls[1].body = JStr(<<"{", "o1", "}">>)
  /\ calls[1].contentType = JStr(AppJson)

HasUri == req.v.parameters.t = "params" /\ Param("uri").t = "string"
DescriptorFields == {"uri", "type", "contentType", "modified", "size", "permissions"}

\* C12: delete_resource of a locator makes exactly one transport call, a
\* DELETE without a body to the normalized locator; the response is
\* {status: 'success', result: {success: true}} exactly when the DELETE was
\* answered 2xx, it is an error whose message contains the status code when
\* the DELETE was answered otherwise, and a success never carries
\* success: false.
C12_Delete ==
  (Done /\ ActionIs("delete_resource") /\ HasUri)
  => /\ calls = <<[method |-> "DELETE", url |-> normalizeUrl(Param("uri").v, podUrl),
                   accept |-> AcceptHeader, contentType |-> Undefined, link |-> <<>>,
                   body |-> Undefined]>>
     /\ Len(outcomes) = 1
     /\ outcomes[1].k = "ok"
          <=> response = [status |-> "success", result |-> [success |-> TRUE]]
     /\ outcomes[1].k = "failed"
          => /\ response.status = "error"
             /\ Includes(response.error, <<ToString(outcomes[1].status)>>)
     /\ response.status = "success" => response.result.success = TRUE

C12_Witness ==
  /\ Done
  /\ ActionIs("delete_resource")
  /\ Param("uri") = JStr(<<"/", "c", "/">>)
  /\ calls[1].url = Uc
  /\ outcomes = <<[k |-> "failed", status |-> 500, statusText |-> <<"Internal Server Error">>]>>
  /\ Includes(response.error, <<"500">>)

\* C13: the first transport call of create_container is a PUT to the
\* normalized locator with the Link header of a BasicContainer, Content-Type
\* text/turtle and no body; a second call is made only after that PUT was
\* answered 2xx, and it is the GET of the same locator; when the PUT fails
\* no further call is made; a success carries {container} and nothing else,
\* the descriptor the read built for that locator.
C13_CreateContainer ==
  (pc # "idle" /\ ActionIs("create_container") /\ HasUri)
  => /\ Len(calls) >= 1
     /\ calls[1] = [method |-> "PUT", url |-> normalizeUrl(Param("uri").v, podUrl),
                    accept |-> AcceptHeader, contentType |-> JStr(TextTurtle),
                    link |-> LinkHeader, body |-> Undefined]
     /\ Len(calls) >= 2
          => /\ outcomes[1].k = "ok"
             /\ calls[2] = GetCall(calls[1].url)
     /\ (Len(outcomes) >= 1 /\ outcomes[1].k = "ok") => Len(calls) >= 2
     /\ (Len(outcomes) >= 1 /\ outcomes[1].k # "ok")
          => Done /\ Len(calls) = 1 /\ response.status = "error"
     /\ (Done /\ response.status = "success")
          => /\ DOMAIN response.result = {"container"}
             /\ DOMAIN response.result.container = DescriptorFields
             /\ response.result.container.uri = calls[1].url
             /\ \A i \in 1..Len(outcomes) : outcomes[i].k = "ok"

C13_Witness ==
  /\ Done
  /\ ActionIs("create_container")
  /\ Param("uri") = JStr(<<"c", "/">>)
  /\ Len(calls) = 2
  /\ calls[1].link = LinkHeader
  /\ calls[2] = GetCall(Uc)
  /\ outcomes = <<[k |-> "ok"], [k |-> "ok"]>>
  /\ response.status = "success"
  /\ response.result.container.uri = Uc

\* C15: a successful read result, as read_resource and write_resource return
\* it, has children exactly when its resource.type is 'container'.
C15_ChildrenIffContainer ==
  (Done /\ (ActionIs("read_resource") \/ ActionIs("write_resource"))
   /\ response.status = "success")
  => ("children" \in DOMAIN response.result
      <=> response.result.resource.type = "container")

C15_Witness ==
  /\ Done
  /\ ActionIs("read_resource")
  /\ response.status = "success"
  /\ response.result.resource.type = "container"
  /\ "children" \in DOMAIN response.result
  /\ Len(response.result.children) = 2

\* the parameters the input schema of a tool lists as required
Required(name) ==
  CASE name = "write_resource" -> {"uri", "content", "content_type"}
    [] name = "search" -> {"container_uri", "search_term"}
    [] OTHER -> {"uri"}

\* C36 as claimed: a request for a registered action whose parameters lack a
\* parameter that the schema of the action requires is answered by an error,
\* and no transport call is made.
C36_RequiredParameters ==
  (/\ Done
   /\ IsObjectRequest
   /\ req.v.action.t = "string"
   /\ Registered(req.v.action.v)
   /\ req.v.parameters.t = "params"
   /\ \E n \in Required(req.v.action.v[1]) : Param(n) = Undefined)
  => /\ response.status = "error"
     /\ calls = <<>>

\* handleRequest found a tool for the action of the request and ran it
Dispatched ==
  /\ Done
  /\ IsObjectRequest
  /\ req.v.action.t = "string"
  /\ req.v.action.v # <<>>
  /\ req.v.parameters.t = "params"
  /\ response # [status |-> "error", error |-> <<"Unknown action: ">> \o req.v.action.v]

\* C39 as claimed: the names of the registry are the names the service lists
\* as its capabilities, no two tools of the registry have the same name, and
\* every action handleRequest dispatches is one of the capabilities.
C39_CapabilitiesMatch ==
  /\ {tools[i] : i \in 1..Len(tools)} = {capabilities[i] : i \in 1..Len(capabilities)}
  /\ \A i, j \in 1..Len(tools) : tools[i] = tools[j] => i = j
  /\ Dispatched => \E i \in 1..Len(capabilities) : <<capabilities[i]>> = req.v.action.v

\* the descriptor in the result of the four tools that end with a read
Descriptor ==
  IF ActionIs("list_container") \/ ActionIs("create_container")
  THEN response.result.container
  ELSE response.result.resource

ReturnsDescriptor ==
  /\ Done
  /\ \E a \in {"read_resource", "list_container", "write_resource", "create_container"} :
       ActionIs(a)
  /\ response.status = "success"

\* C33: the descriptor of every successful read carries the permissions
\* read, write and append granted and control denied, whatever the transport
\* answered, never none; and a read_resource or list_container that succeeds
\* has made no transport call but its GET of the locator and, for a
\* container, the GET of its listing.
C33_StaticPermissions ==
  ReturnsDescriptor
  => /\ "permissions" \in DOMAIN Descriptor
     /\ Descriptor.permissions
          = [read |-> TRUE, write |-> TRUE, append |-> TRUE, control |-> FALSE]
     /\ (ActionIs("read_resource") \/ ActionIs("list_container"))
        => /\ Len(calls) = IF Descriptor.type = "container" THEN 2 ELSE 1
           /\ \A i \in 1..Len(calls) : calls[i] = GetCall(Descriptor.uri)

C33_Witness ==
  /\ ReturnsDescriptor
  /\ ActionIs("read_resource")
  /\ Len(calls) = 1
  /\ outcomes = <<[k |-> "ok"]>>
  /\ Descriptor.contentType = ImagePng
  /\ Descriptor.permissions.control = FALSE
  /\ Descriptor.permissions.read

\* C28: in an invocation of read_resource, write_resource, delete_resource,
\* list_container or create_container, a transport call that rejects or is
\* answered non-2xx is the last call of the invocation: handleRequest has
\* returned, with an error, and no call (no retry, no read-back GET after a
\* failed PUT) was issued after it.
C28_NoCallAfterFailure ==
  (pc # "idle" /\ IsObjectRequest /\ ~ActionIs("search"))
  => \A i \in 1..Len(outcomes) :
       outcomes[i].k # "ok"
       => /\ Len(calls) = i
          /\ Done
          /\ response.status = "error"

C28_Witness ==
  /\ Done
  /\ ActionIs("write_resource")
  /\ Len(calls) = 1
  /\ calls[1].method = "PUT"
  /\ Len(outcomes) = 1
  /\ outcomes[1].k = "failed"
  /\ response.status = "error"

\* C30: the action is validated before the parameters, and the parameters
\* before the registry is looked up: a request whose action and parameters
\* both break the envelope rules is answered with the action violation, and a
\* request that names no registered tool and has no parameters is answered
\* 'Invalid request' (for its parameters), not 'Unknown action'.
C30_ValidationOrder ==
  (Done /\ IsObjectRequest)
  => /\ (/\ req.v.action.t # "string" \/ req.v.action = JStr(<<>>)
         /\ req.v.parameters.t # "params")
        => response = [status |-> "error",
                       error |-> <<"Invalid request", ": missing or invalid action">>]
     /\ (/\ req.v.action.t = "string"
         /\ req.v.action.v # <<>>
         /\ ~Registered(req.v.action.v)
         /\ req.v.parameters.t \in {"undefined", "null"})
        => /\ response = [status |-> "error",
                          error |-> <<"Invalid request", ": missing or invalid parameters">>]
           /\ ~Includes(response.error, <<"Unknown action: ">>)

C30_Witness ==
  /\ Done
  /\ ActionIs("not_real")
  /\ req.v.parameters = Undefined
  /\ response.status = "error"
  /\ Includes(response.error, <<"Invalid request">>)
  /\ calls = <<>>

(***************************************************************************)
(* The specification of the dispatcher in front of a pod that stores what  *)
(* is PUT: invocations one after the other, nothing else writes the pod.   *)
(***************************************************************************)
PodUris == {JStr(<<"/", "c", "/", "a">>), JStr(Uca), JStr(<<"c", "/">>)}

PodRequests ==
  {Request(JStr(<<"write_resource">>),
           Params([NoParams EXCEPT !.uri = u, !.content = c, !.content_type = ct])) :
     u \in PodUris,
     c \in {JStr(Hello), JStr(<<>>), JStr(<<"{", "o1", "}">>), JObj("o1")},
     ct \in {JStr(TextPlain), JStr(AppJson), JStr(TextTurtle)}}
  \cup {Request(JStr(<<a>>), Params([NoParams EXCEPT !.uri = u, !.include_content = ic])) :
          a \in {"read_resource", "delete_resource", "create_container"},
          u \in PodUris, ic \in {Undefined, False}}

PodInit ==
  /\ tools = ToolNames
  /\ capabilities = Capabilities
  /\ podUrl \in PodBases
  /\ pc = "idle"
  /\ req = Undefined
  /\ stack = <<>>
  /\ calls = <<>>
  /\ readers = <<>>
  /\ outcomes = <<>>
  /\ response = NoResponse
  /\ logs = <<>>
  /\ pod \in {EmptyPod, [EmptyPod EXCEPT ![Uca] = Stored(ImagePng, <<"b">>)]}
  /\ prev = NoPrev
  /\ rivals = <<>>
  /\ fnArgs = NoArgs
  /\ fnValue = <<>>

\* PodHandleRequest of a dispatcher that keeps the response of the invocation
\* before and gives it again to a caller who repeats the request
PodHandleRequestCached ==
  /\ pc = "idle"
  /\ \E r \in PodRequests :
       /\ req' = r
       /\ Install(IF prev.req = r THEN [Fresh EXCEPT !.response = prev.response]
                  ELSE handleRequest(r))
  /\ outcomes' = <<>>
  /\ UNCHANGED <<config, pod, prev, aside>>

PodHandleRequest ==
  /\ pc = "idle"
  /\ \E r \in PodRequests :
       /\ req' = r
       /\ Install(handleRequest(r))
  /\ outcomes' = <<>>
  /\ UNCHANGED <<config, pod, prev, aside>>

\* the pod serves the call in flight
PodServe ==
  /\ pc = "waiting"
  /\ LET call == calls[Len(calls)]
         r == PodResponse(pod, call)
     IN  /\ \E reread \in {"throws", "returns"} : Install(Resume(Current, Resp(r, reread)))
         /\ outcomes' = Append(outcomes, Outcome(r))
         /\ pod' = PodAfter(pod, call)
  /\ UNCHANGED <<config, req, prev, aside>>

\* the caller takes the response, and is the one to issue the next request
PodReturn ==
  /\ pc = "done"
  /\ Forget
  /\ prev' = [req |-> req, response |-> response]
  /\ UNCHANGED <<config, pod, aside>>

PodNext == PodHandleRequest \/ PodServe \/ PodReturn

PodSpec == PodInit /\ [][PodNext]_vars

WriteOfText(r) ==
  /\ r.t = "request"
  /\ r.v.action = JStr(<<"write_resource">>)
  /\ Field(r.v.parameters, "uri").t = "string"
  /\ Field(r.v.parameters, "content").t = "string"
  /\ Field(r.v.parameters, "content_type") = JStr(TextPlain)

\* C9: against a pod that stores what is PUT, write_resource(u, c,
\* 'text/plain') of a string c returns content c, and a read_resource(u) that
\* follows it returns status success, content c and a contentType that
\* contains 'text/plain'.
C9_RoundTrip ==
  /\ (Done /\ WriteOfText(req))
     => /\ response.status = "success"
        /\ response.result.content = Param("content")
  /\ (/\ Done
      /\ ActionIs("read_resource")
      /\ Param("include_content").t = "undefined"
      /\ WriteOfText(prev.req)
      /\ normalizeUrl(Param("uri").v, podUrl)
           = normalizeUrl(Field(prev.req.v.parameters, "uri").v, podUrl))
     => /\ response.status = "success"
        /\ response.result.content = Field(prev.req.v.parameters, "content")
        /\ Includes(response.result.resource.contentType, TextPlain)

C9_Witness ==
  /\ Done
  /\ ActionIs("read_resource")
  /\ Param("uri") = JStr(Uca)
  /\ Param("include_content").t = "undefined"
  /\ WriteOfText(prev.req)
  /\ Field(prev.req.v.parameters, "uri") = JStr(<<"/", "c", "/", "a">>)
  /\ Field(prev.req.v.parameters, "content") = JStr(Hello)
  /\ response.status = "success"
  /\ response.result.content = JStr(Hello)

Yo == <<"y", "o">>

RaceRequests ==
  {Request(JStr(<<"write_resource">>),
           Params([NoParams EXCEPT !.uri = u, !.content = c, !.content_type = JStr(TextPlain)])) :
     u \in {JStr(<<"/", "c", "/", "a">>), JStr(Uca)}, c \in {JStr(Hello), JStr(Yo)}}
  \cup {Request(JStr(<<"read_resource">>), Params([NoParams EXCEPT !.uri = JStr(Uca)]))}

\* the requests of the other invocations
RivalRequests ==
  {Request(JStr(<<"write_resource">>),
           Params([NoParams EXCEPT !.uri = u, !.content = c, !.content_type = JStr(TextPlain)])) :
     u \in {JStr(Uca), JStr(<<"c", "/">>)}, c \in {JStr(Hello), JStr(Yo)}}
  \cup {Request(JStr(<<"delete_resource">>), Params([NoParams EXCEPT !.uri = JStr(Uca)]))}

RaceHandleRequest ==
  /\ pc = "idle"
  /\ \E r \in RaceRequests :
       /\ req' = r
       /\ Install(handleRequest(r))
  /\ outcomes' = <<>>
  /\ UNCHANGED <<config, pod, prev, aside>>

\* the pod serves the PUT or the DELETE of another invocation while this one
\* waits for its own call
Rival ==
  /\ pc = "waiting"
  /\ Len(rivals) < MaxRivals
  /\ \E r \in RivalRequests :
       LET call == handleRequest(r).calls[1]
       IN  /\ pod' = PodAfter(pod, call)
           /\ rivals' = Append(rivals, [after |-> Len(outcomes), call |-> call])
  /\ UNCHANGED <<config, pc, req, stack, calls, readers, outcomes, response, logs, prev,
                 fnArgs, fnValue>>

RaceReturn ==
  /\ pc = "done"
  /\ Forget
  /\ rivals' = <<>>
  /\ UNCHANGED <<config, pod, prev, fnArgs, fnValue>>

RaceNext == RaceHandleRequest \/ PodServe \/ Rival \/ RaceReturn

RaceSpec == PodInit /\ [][RaceNext]_vars

\* the calls of other invocations, to the locator of the write, that the pod
\* served after the PUT of the write and before its GET
Between == SelectSeq(rivals, LAMBDA rv : rv.after = 1 /\ rv.call.url = calls[1].url)

\* C11: a write_resource makes its PUT and then its GET and nothing else,
\* whatever the pod serves in between; when the pod served a call of another
\* invocation to the same locator between the two, the write returns what
\* that call left: the content of the other PUT, with status success, or an
\* error for a resource the other invocation deleted; it returns the content
\* it wrote when no such call came in between.
C11_WriteNotAtomic ==
  (Done /\ WriteOfText(req))
  => /\ Len(calls) = 2
     /\ calls[2] = GetCall(calls[1].url)
     /\ IF Between = <<>>
        THEN response.status = "success" /\ response.result.content = Param("content")
        ELSE LET last == Between[Len(Between)].call
             IN  IF last.method = "PUT"
                 THEN response.status = "success" /\ response.result.content = last.body
                 ELSE response.status = "error" /\ Includes(response.error, <<"404">>)

C11_Witness ==
  /\ Done
  /\ WriteOfText(req)
  /\ Param("content") = JStr(Hello)
  /\ Len(rivals) = 1
  /\ rivals[1].after = 1
  /\ rivals[1].call.method = "PUT"
  /\ rivals[1].call.url = calls[1].url
  /\ response.status = "success"
  /\ response.result.content = JStr(Yo)

(***************************************************************************)
(* The specification of the dispatcher in front of a pod that holds a      *)
(* graph of containers and serves it unchanged: reads, listings, searches. *)
(***************************************************************************)
Ucaa == Uca \o <<"/", "a">>
Ucda == Ucd \o <<"a">>

\* every child on one line, with its format
ListingOneLine ==
  TurtleLine(Uc, IsA(LdpContainer) \o <<".", NL>>)
  \o TurtleLine(Uca, Format(TextPlain) \o <<".", NL>>)
  \o TurtleLine(UcAb, Format(AppJson) \o <<".">>)

\* the format of a child on the line after the one that opens the child
ListingSplit ==
  TurtleLine(Uc, IsA(LdpContainer) \o <<".", NL>>)
  \o TurtleLine(Uca, IsA(LdpResource) \o <<";", NL>>)
  \o <<SP, SP>> \o Format(TextPlain) \o <<".", NL>>
  \o TurtleLine(UcAb, IsA(LdpResource) \o <<";", NL>>)
  \o <<SP, SP>> \o Format(AppJson) \o <<".">>

\* prefixed names, as the containers of the test suite are written
ListingPrefixed ==
  <<"@prefix ldp: ", "<", "http://www.w3.org/ns/ldp#", ">", ".", NL>>
  \o TurtleLine(Uc, <<"a", SP, "ldp:Container", ";", NL>>)
  \o <<SP, SP, "ldp:contains", SP, "<">> \o Uca \o <<">", ",", SP, "<">> \o UcAb
  \o <<">", ".", NL>>
  \o TurtleLine(Uca, <<"a", SP, "ldp:Resource", ";", NL>>)
  \o <<SP, SP, "dc:format", SP, "\"">> \o TextPlain \o <<"\"", ".", NL>>
  \o TurtleLine(UcAb, <<"a", SP, "ldp:Resource", ";", NL>>)
  \o <<SP, SP, "dc:format", SP, "\"">> \o AppJson \o <<"\"", ".">>

\* two containers and a file
ListingTree ==
  TurtleLine(Uc, IsA(LdpContainer) \o <<".", NL>>)
  \o TurtleLine(Uca, IsA(LdpContainer) \o <<".", NL>>)
  \o TurtleLine(Ucd, IsA(LdpContainer) \o <<".", NL>>)
  \o TurtleLine(UcAb, Format(TextPlain) \o <<".">>)

\* a child named by a relative reference, <x>
ListingRelative ==
  TurtleLine(Uc, IsA(LdpContainer) \o <<".", NL>>)
  \o TurtleLine(Uca, Format(TextPlain) \o <<".", NL>>)
  \o TurtleLine(<<"x">>, IsA(LdpResource) \o <<".">>)

ListingA ==
  TurtleLine(Uca, IsA(LdpContainer) \o <<".", NL>>)
  \o TurtleLine(Ucaa, Format(TextPlain) \o <<".">>)

ListingD ==
  TurtleLine(Ucd, IsA(LdpContainer) \o <<".", NL>>)
  \o TurtleLine(Ucda, Format(TextPlain) \o <<".">>)

\* the container d/ holds the container it lies in
ListingBack ==
  TurtleLine(Ucd, IsA(LdpContainer) \o <<".", NL>>)
  \o TurtleLine(Uc, IsA(LdpContainer) \o <<".">>)

ListingRelativeBack ==
  TurtleLine(Ucd, IsA(LdpContainer) \o <<".", NL>>)
  \o TurtleLine(<<"x">>, IsA(LdpResource) \o <<".", NL>>)
  \o TurtleLine(Uc, IsA(LdpContainer) \o <<".">>)

\* the container d/ holds a file and a child named by a relative reference
ListingRelativeLeaf ==
  TurtleLine(Ucd, IsA(LdpContainer) \o <<".", NL>>)
  \o TurtleLine(Ucda, Format(TextPlain) \o <<".", NL>>)
  \o TurtleLine(<<"x">>, IsA(LdpResource) \o <<".">>)

\* files of the media types readResource tells apart, one without a type
Files ==
  {Stored(TextPlain, Hello),
   Stored(TextPlain \o <<"; charset=utf-8">>, Hello),
   Stored(AppJson, <<"{", "o1", "}">>),
   Stored(AppJson, Hello),
   Stored(AppLdJson, <<"{", "o1", "}">>),
   Stored(ImagePng, <<"b">>),
   Stored(<<>>, Hello)}

Graphs ==
  {(Uc :> Stored(TextTurtle, lc)) @@ (Uca :> a) @@ (Ucd :> d) :
     lc \in {ListingOneLine, ListingSplit, ListingPrefixed, ListingTree, ListingRelative},
     a \in {Absent, Stored(TextTurtle, ListingA), Stored(TextPlain, ListingA),
            Stored(TextTurtle, ListingD)} \cup Files,
     d \in {Absent, Stored(TextTurtle, ListingD), Stored(TextTurtle, ListingBack),
            Stored(TextTurtle, ListingRelativeBack), Stored(TextTurtle, ListingRelativeLeaf)}}

GraphUris == {JStr(<<"/", "c", "/">>), JStr(Uca)}

GraphRequests ==
  {Request(JStr(<<a>>), Params([NoParams EXCEPT !.uri = u, !.include_content = ic])) :
     a \in {"read_resource", "list_container"}, u \in GraphUris,
     ic \in {Undefined, True, False}}
  \cup {Request(JStr(<<"search">>),
                Params([NoParams EXCEPT !.container_uri = u, !.search_term = term,
                                        !.recursive = rc])) :
          u \in GraphUris,
          term \in {JStr(<<"a">>), JStr(<<"B">>), JStr(<<>>), Undefined},
          rc \in {Undefined, True}}

GraphInit ==
  /\ tools = ToolNames
  /\ capabilities = Capabilities
  /\ podUrl \in PodBases
  /\ pc = "idle"
  /\ req = Undefined
  /\ stack = <<>>
  /\ calls = <<>>
  /\ readers = <<>>
  /\ outcomes = <<>>
  /\ response = NoResponse
  /\ logs = <<>>
  /\ pod \in Graphs
  /\ prev = NoPrev
  /\ rivals = <<>>
  /\ fnArgs = NoArgs
  /\ fnValue = <<>>

GraphHandleRequest ==
  /\ pc = "idle"
  /\ \E r \in GraphRequests :
       /\ req' = r
       /\ Install(handleRequest(r))
  /\ outcomes' = <<>>
  /\ UNCHANGED <<config, pod, prev, aside>>

GraphNext == GraphHandleRequest \/ PodServe \/ Return

GraphSpec == GraphInit /\ [][GraphNext]_vars

\* the locator a read, a listing or a search starts from
Start ==
  normalizeUrl((IF ActionIs("search") THEN Param("container_uri") ELSE Param("uri")).v, podUrl)

\* the pod answers a GET of u with a turtle body that holds the container marker
Classified(u) ==
  /\ u \in PodLocators
  /\ pod[u].present
  /\ Includes(pod[u].ct, TextTurtle)
  /\ Includes(pod[u].body, <<LdpContainer>>)

\* the children a read of u lists, in front of the pod store
ListedIn(store, u) ==
  IF /\ u \in PodLocators
     /\ store[u].present
     /\ Includes(store[u].ct, TextTurtle)
     /\ Includes(store[u].body, <<LdpContainer>>)
  THEN parseResourceMetadata(store[u].body, u)
  ELSE <<>>

\* the children a read of u lists
Listed(u) == ListedIn(pod, u)

Served(u) == u \in PodLocators /\ pod[u].present

TwoTyped(children) ==
  /\ Len(children) = 2
  /\ children[1].uri = Uca /\ children[1].contentType = TextPlain
  /\ children[2].uri = UcAb /\ children[2].contentType = AppJson

IsRead == Done /\ ActionIs("read_resource") /\ HasUri /\ Start = Uc

FilenamePortion(u) ==
  IF IsAbsolute(u) THEN getFilenameFromUrl(u) ELSE LastSegment(TakePath(u))

Matches(child, term) ==
  Includes(toLowerCase(FilenamePortion(child.uri)), toLowerCase(term))

\* one hit per listed child of u whose filename contains the term
ExpectedHits(u, term) ==
  LET found == SelectSeq(Listed(u), LAMBDA child : Matches(child, term))
  IN  [i \in 1..Len(found) |-> found[i] @@ [relevance |-> RelevanceTenths]]

IsSearch ==
  /\ Done
  /\ ActionIs("search")
  /\ Param("container_uri").t = "string"
  /\ Param("search_term").t = "string"

\* C17: a search that is not recursive returns one hit for every occurrence
\* of a child in the listing of the container whose filename contains the
\* term, whatever the case of the letters, in the order of the listing, and
\* no other hit; every hit carries the relevance 0.8.
C17_SearchHits ==
  (IsSearch /\ ~Truthy(Param("recursive")))
  => /\ response.status = "success"
     /\ response.result.results = ExpectedHits(Start, Param("search_term").v)

\* x lies below the container y
Within(x, y) ==
  LET yy == IF EndsWith(y, <<"/">>) THEN y ELSE y \o <<"/">>
  IN  Len(x) > Len(yy) /\ StartsWith(x, yy)

InSubtree(x, y) == x = y \/ Within(x, y)

\* the listing names the locator of its k-th child once
NamedOnce(listing, k) ==
  \A l \in 1..Len(listing) : l # k => listing[l].uri # listing[k].uri

\* every listing of the pod names only locators below the container it describes
Hierarchical ==
  \A u \in PodLocators : \A k \in 1..Len(Listed(u)) : Within(Listed(u)[k].uri, u)

\* C18: in the results of a recursive search over a pod whose listings name
\* only locators below their container (so that the hits found inside a
\* child are the hits whose locators lie in it), no hit comes before the hit
\* of a container it lies in, and all the hits of and below one child of the
\* start container come before the hits of and below every child that the
\* listing names later (for children the listing names once, neither of
\* which lies in the other).
C18_PreOrder ==
  (IsSearch /\ Truthy(Param("recursive")) /\ response.status = "success" /\ Hierarchical)
  => LET r == response.result.results
         top == Listed(Start)
     IN  /\ \A i, j \in 1..Len(r) : i < j => ~Within(r[i].uri, r[j].uri)
         /\ \A p, q \in 1..Len(top) :
              (p < q /\ NamedOnce(top, p) /\ NamedOnce(top, q)
               /\ ~InSubtree(top[p].uri, top[q].uri)
               /\ ~InSubtree(top[q].uri, top[p].uri))
              => \A i, j \in 1..Len(r) :
                   (InSubtree(r[i].uri, top[p].uri) /\ InSubtree(r[j].uri, top[q].uri))
                   => i < j

C18_Witness ==
  /\ IsSearch
  /\ Hierarchical
  /\ Param("search_term") = JStr(<<"a">>)
  /\ Param("recursive") = True
  /\ pod = (Uc :> Stored(TextTurtle, ListingTree)) @@ (Uca :> Stored(TextTurtle, ListingA))
            @@ (Ucd :> Stored(TextTurtle, ListingD))
  /\ Len(response.result.results) = 4
  /\ response.result.results[1].uri = Uca
  /\ response.result.results[2].uri = Ucaa
  /\ response.result.results[3].uri = Ucda
  /\ response.result.results[4].uri = UcAb

\* the listing of u names v as a container
Edge(u, v) ==
  \E i \in 1..Len(Listed(u)) : Listed(u)[i].uri = v /\ Listed(u)[i].type = "container"

\* C19: a recursive search that starts from a container on a cycle of the
\* container graph, and whose reads all succeed, never returns.
C19_NeverTerminates ==
  ~(/\ IsSearch
    /\ Truthy(Param("recursive"))
    /\ Start = Uc
    /\ Edge(Uc, Ucd)
    /\ Edge(Ucd, Uc)
    /\ \A i \in 1..Len(outcomes) : outcomes[i].k = "ok")

(***************************************************************************)
(* The specification of normalizeUrl applied on its own, to every string   *)
(* of at most MaxLen atoms and a few bases.                                *)
(***************************************************************************)
UrlAtoms == {"https:", "/", "c", "a"}

RECURSIVE StringsUpTo(_)
StringsUpTo(n) ==
  IF n = 0 THEN {<<>>}
  ELSE LET S == StringsUpTo(n - 1) IN S \cup {Append(str, a) : str \in S, a \in UrlAtoms}

BaseInputs == PodBases \cup {Uc, <<>>, <<"c">>}

NormalizeInit ==
  /\ tools = ToolNames
  /\ capabilities = Capabilities
  /\ podUrl = Host
  /\ pc = "idle"
  /\ req = Undefined
  /\ stack = <<>>
  /\ calls = <<>>
  /\ readers = <<>>
  /\ outcomes = <<>>
  /\ response = NoResponse
  /\ logs = <<>>
  /\ pod = EmptyPod
  /\ prev = NoPrev
  /\ rivals = <<>>
  /\ fnArgs \in [uri : StringsUpTo(MaxLen), baseUrl : BaseInputs]
  /\ fnValue = <<>>

\* a caller applies normalizeUrl to the arguments
NormalizeUrl ==
  /\ pc = "idle"
  /\ fnValue' = normalizeUrl(fnArgs.uri, fnArgs.baseUrl)
  /\ pc' = "done"
  /\ UNCHANGED <<config, req, stack, calls, readers, outcomes, response, logs, pod, prev,
                 rivals, fnArgs>>

NormalizeNext == NormalizeUrl

NormalizeSpec == NormalizeInit /\ [][NormalizeNext]_vars

\* C20: normalizeUrl returns a locator that parses as an absolute URL as it
\* was given, whatever the base.
C20_AbsoluteUnchanged == (Done /\ IsAbsolute(fnArgs.uri)) => fnValue = fnArgs.uri

C20_Witness ==
  /\ Done
  /\ fnArgs = [uri |-> <<"https:", "c">>, baseUrl |-> Uc]
  /\ fnValue = <<"https:", "c">>

RECURSIVE DropTrailingSlashes(_)
DropTrailingSlashes(s) ==
  IF s # <<>> /\ s[Len(s)] = "/" THEN DropTrailingSlashes(SubSeq(s, 1, Len(s) - 1)) ELSE s

\* the base with a path delimiter at its end
Delimited(base) == IF EndsWith(base, <<"/">>) THEN base ELSE base \o <<"/">>

\* C21: for a locator that does not parse as an absolute URL, normalizeUrl
\* returns a string that starts with the base (a delimiter added where the
\* base has none at its end), ends with the locator without its leading
\* delimiters, and has exactly one delimiter between the two: it is the base
\* without its trailing delimiters, one delimiter, and the locator without
\* its leading delimiters.
C21_RelativeJoin ==
  (Done /\ ~IsAbsolute(fnArgs.uri))
  => /\ StartsWith(fnValue, Delimited(fnArgs.baseUrl))
     /\ EndsWith(fnValue, SkipSlashes(fnArgs.uri))
     /\ fnValue = DropTrailingSlashes(fnArgs.baseUrl) \o <<"/">> \o SkipSlashes(fnArgs.uri)

(***************************************************************************)
(* The specification of parseResourceMetadata applied on its own, to every *)
(* body of at most MaxLines lines and a few container locators.            *)
(***************************************************************************)
Subjects == {Uc, Uca, <<"x">>}
LineEnds == {<<".">>, <<";">>, <<>>}

TurtleLines ==
  {TurtleLine(subject, rest \o e) :
     subject \in Subjects, rest \in {<<>>, IsA(LdpContainer)}, e \in LineEnds}
  \cup {<<>>,
        <<SP, SP>> \o Format(TextPlain) \o <<".">>,
        <<"<", "x", ">", SP>> \o TurtleLine(Uc, <<".">>)}

RECURSIVE BodiesUpTo(_)
BodiesUpTo(n) ==
  IF n = 1 THEN TurtleLines
  ELSE LET B == BodiesUpTo(n - 1)
       IN  B \cup {b \o <<NL>> \o line : b \in B, line \in TurtleLines}

ContainerInputs == {Uc, Uca, <<DcFormat>>}

ParseInit ==
  /\ tools = ToolNames
  /\ capabilities = Capabilities
  /\ podUrl = Host
  /\ pc = "idle"
  /\ req = Undefined
  /\ stack = <<>>
  /\ calls = <<>>
  /\ readers = <<>>
  /\ outcomes = <<>>
  /\ response = NoResponse
  /\ logs = <<>>
  /\ pod = EmptyPod
  /\ prev = NoPrev
  /\ rivals = <<>>
  /\ fnArgs \in [turtleContent : BodiesUpTo(MaxLines), containerUrl : ContainerInputs]
  /\ fnValue = <<>>

\* a caller applies parseResourceMetadata to the arguments
ParseResourceMetadata ==
  /\ pc = "idle"
  /\ fnValue' = parseResourceMetadata(fnArgs.turtleContent, fnArgs.containerUrl)
  /\ pc' = "done"
  /\ UNCHANGED <<config, req, stack, calls, readers, outcomes, response, logs, pod, prev,
                 rivals, fnArgs>>

ParseNext == ParseResourceMetadata

ParseSpec == ParseInit /\ [][ParseNext]_vars

\* C22: whatever the body and the container locator, no child that
\* parseResourceMetadata returns has the container locator as its uri.
C22_NoSelfChild == Done => \A i \in 1..Len(fnValue) : fnValue[i].uri # fnArgs.containerUrl

C22_Witness ==
  /\ Done
  /\ fnArgs = [turtleContent |-> TurtleLine(Uc, IsA(LdpContainer) \o <<".">>) \o <<NL>>
                                 \o TurtleLine(Uca, <<".">>),
               containerUrl |-> Uc]
  /\ fnValue = <<[uri |-> Uca, type |-> "resource", contentType |-> <<>>]>>

\* C23: a read classifies the locator as 'container' exactly when the
\* Content-Type of the response contains 'text/turtle' and its body contains
\* 'http://www.w3.org/ns/ldp#Container', whatever subject the body is about;
\* under a Content-Type without 'text/turtle' no reader is called on the
\* response for the check (none at all when the content is not asked for, the
\* one of the content otherwise) and the type is 'resource'; under one with
\* 'text/turtle' the first reader called is text().
C23_Classification ==
  (Done /\ ActionIs("read_resource") /\ HasUri /\ Served(Start))
  => LET turtle == Includes(pod[Start].ct, TextTurtle)
         marker == Includes(pod[Start].body, <<LdpContainer>>)
         asked == Param("include_content") # False
     IN  /\ ~asked => response.status = "success"
         /\ response.status = "success"
              => (response.result.resource.type = "container" <=> (turtle /\ marker))
         /\ ~turtle
              => /\ response.status = "success"
                      => response.result.resource.type = "resource"
                 /\ readers = <<IF asked THEN <<BodyReader(pod[Start].ct)>> ELSE <<>> >>
         /\ turtle => readers[1] # <<>> /\ Head(readers[1]) = "text"

C23_Witness ==
  /\ Done
  /\ ActionIs("read_resource")
  /\ Start = Uca
  /\ pod[Uca] = Stored(TextTurtle, ListingD)
  /\ Param("include_content") = False
  /\ response.status = "success"
  /\ response.result.resource.type = "container"
  /\ readers[1] = <<"text">>

\* C24: a read of a locator the pod serves makes exactly two transport
\* calls, both the GET of that locator, when the locator is classified as a
\* container, whatever the number of children its listing names, and exactly
\* one, the GET of the locator, when it is classified as a plain resource.
C24_TwoGets ==
  (Done /\ (ActionIs("read_resource") \/ ActionIs("list_container")) /\ HasUri
   /\ Served(Start))
  => calls = IF Classified(Start) THEN <<GetCall(Start), GetCall(Start)>>
             ELSE <<GetCall(Start)>>

\* C25: a read that asks for the content (include_content true or left
\* out) calls, for the content, json() when the Content-Type of the response
\* contains 'application/json' or 'application/ld+json', text() when it does
\* not but contains 'text/', and blob() otherwise, also when the response has
\* no Content-Type; a success carries what that reader made of the body, and
\* a body that json() cannot parse makes the read fail; a read with
\* include_content false succeeds without a content field and without a
\* reader called for the content.
C25_ContentDecoding ==
  (Done /\ ActionIs("read_resource") /\ HasUri /\ Served(Start))
  => LET ct == pod[Start].ct
         body == pod[Start].body
         asked == Param("include_content") # False
         own == readers[1]
         reader == IF Includes(ct, AppJson) \/ Includes(ct, AppLdJson) THEN "json"
                   ELSE IF Includes(ct, <<"text/">>) THEN "text"
                   ELSE "blob"
         decoded == CASE reader = "json" -> JSONparse(body)
                      [] reader = "text" -> JStr(body)
                      [] OTHER -> JBlob(body)
     IN  IF asked
         THEN /\ own # <<>> /\ own[Len(own)] = reader
              /\ response.status = "success"
                   => /\ "content" \in DOMAIN response.result
                      /\ response.result.content = decoded
              /\ (reader = "json" /\ decoded = Undefined) => response.status = "error"
              /\ ~Includes(ct, TextTurtle) /\ decoded # Undefined
                   => response.status = "success"
         ELSE /\ response.status = "success"
              /\ "content" \notin DOMAIN response.result
              /\ own = IF Includes(ct, TextTurtle) THEN <<"text">> ELSE <<>>

C25_Witness ==
  /\ Done
  /\ ActionIs("read_resource")
  /\ Start = Uca
  /\ pod[Uca] = Stored(<<>>, Hello)
  /\ Param("include_content") = True
  /\ readers = << <<"blob">> >>
  /\ response.status = "success"
  /\ response.result.content = JBlob(Hello)

(***************************************************************************)
(* The specification of the dispatcher in front of the pod that holds a    *)
(* graph of containers, where the pod answers every call.                  *)
(***************************************************************************)
\* PodServe is enabled: a call is in flight and the model can follow the answer
CanServe ==
  /\ pc = "waiting"
  /\ \E reread \in {"throws", "returns"} :
       ~Resume(Current, Resp(PodResponse(pod, calls[Len(calls)]), reread)).overflow

\* weak fairness of PodServe, WF_vars(PodServe), with ENABLED <<PodServe>>_vars
\* written out as the state predicate CanServe
Responsive == []<>(~CanServe) \/ []<><<PodServe>>_vars

GraphLiveSpec == GraphInit /\ [][GraphNext]_vars /\ Responsive /\ WF_vars(Return)

\* the children the listing of each locator names as containers
Kids(store) ==
  [u \in PodLocators |-> SelectSeq(ListedIn(store, u), LAMBDA child : child.type = "container")]

KidsOf(kids, u) == IF u \in DOMAIN kids THEN kids[u] ELSE <<>>

\* there is a path of at most n edges from u to v
RECURSIVE Reaches(_, _, _, _)
Reaches(kids, u, v, n) ==
  /\ n > 0
  /\ \E i \in 1..Len(KidsOf(kids, u)) :
       LET w == KidsOf(kids, u)[i].uri IN w = v \/ Reaches(kids, w, v, n - 1)

Acyclic ==
  \A kids \in {Kids(pod)} : \A v \in PodLocators : ~Reaches(kids, v, v, Cardinality(PodLocators))

\* the calls of searchResources a recursive search from u makes at most,
\* MaxCalls when it goes deeper than fuel levels
RECURSIVE Visits(_, _, _), VisitsBelow(_, _, _)
VisitsBelow(kids, children, fuel) ==
  IF children = <<>> THEN 0
  ELSE Visits(kids, Head(children).uri, fuel) + VisitsBelow(kids, Tail(children), fuel)

Visits(kids, u, fuel) ==
  IF fuel = 0 THEN MaxCalls ELSE 1 + VisitsBelow(kids, KidsOf(kids, u), fuel - 1)

\* the search stays within the bounds of the model
Fits ==
  \/ ~Truthy(Param("recursive")) /\ 2 <= MaxCalls
  \/ /\ Truthy(Param("recursive"))
     /\ \A kids \in {Kids(pod)} : 2 * Visits(kids, Start, MaxDepth) <= MaxCalls

\* C26: over a container graph without a cycle, where the pod answers every
\* call, a search returns, whatever the term and whether it is recursive or
\* not (for the graphs whose search stays within MaxDepth and MaxCalls).
C26_SearchTerminates == (pc = "waiting" /\ ActionIs("search") /\ Acyclic /\ Fits) ~> Done

C26_Witness ==
  /\ Done
  /\ ActionIs("search")
  /\ Param("recursive") = True
  /\ Acyclic
  /\ Fits
  /\ Edge(Uc, Uca)
  /\ Edge(Uc, Ucd)
  /\ Len(calls) = 6
  /\ \A i \in 1..Len(outcomes) : outcomes[i].k = "ok"
  /\ response.status = "success"

\* every child every listing of the pod names is named by an absolute URL
AbsoluteListings ==
  \A u \in PodLocators :
    \A i \in 1..Len(Listed(u)) : IsAbsolute(Listed(u)[i].uri)

\* the locators a search from u fetches, in order, when it reads a container,
\* lists it, and goes through the whole of each child container before it
\* turns to the next child
RECURSIVE Gets(_, _, _, _), GetsBelow(_, _, _)
GetsBelow(store, children, fuel) ==
  IF children = <<>> THEN <<>>
  ELSE (IF Head(children).type = "container"
        THEN Gets(store, Head(children).uri, TRUE, fuel)
        ELSE <<>>)
       \o GetsBelow(store, Tail(children), fuel)

Gets(store, u, recursive, fuel) ==
  LET held == u \in PodLocators /\ store[u].present
      container == /\ held
                   /\ Includes(store[u].ct, TextTurtle)
                   /\ Includes(store[u].body, <<LdpContainer>>)
  IN  IF ~container THEN <<u>>
      ELSE <<u, u>> \o (IF recursive /\ fuel > 0
                        THEN GetsBelow(store, ListedIn(store, u), fuel - 1)
                        ELSE <<>>)

\* C27: an invocation has at most one transport call in flight: every call
\* but the last has been answered before the next is issued, and all are
\* answered when handleRequest returns; a search fetches depth first, one
\* call after the other: its calls are, in order, the GETs of a walk that
\* reads and lists a container and goes through the whole of one child
\* container before it fetches the next child (for a search with a term, over
\* listings that name their children by absolute URLs).
C27_OneAtATime ==
  pc # "idle"
  => /\ Len(outcomes) = Len(calls) - (IF pc = "waiting" THEN 1 ELSE 0)
     /\ (/\ ActionIs("search")
         /\ Param("search_term").t = "string"
         /\ AbsoluteListings)
        => \A store \in {pod} :
             LET walk == Gets(store, Start, Truthy(Param("recursive")), MaxCalls)
             IN  /\ Len(calls) <= Len(walk)
                 /\ \A i \in 1..Len(calls) : calls[i] = GetCall(walk[i])
                 /\ Done => Len(calls) = Len(walk)

C27_Witness ==
  /\ pc = "waiting"
  /\ ActionIs("search")
  /\ Param("recursive") = True
  /\ Param("search_term") = JStr(<<"a">>)
  /\ AbsoluteListings
  /\ Len(calls) = 5
  /\ Len(outcomes) = 4
  /\ calls[3].url = Uca
  /\ calls[4].url = Uca
  /\ calls[5].url = Ucd

(***************************************************************************)
(* parseResourceMetadata, line by line: which subjects are emitted, and     *)
(* with which type and content type.                                        *)
(***************************************************************************)
\* the line opens a subject: it holds '<http', '>' and a bracketed token
Opens(line) ==
  LET t == Trim(line)
  IN  IncludesLtHttp(t) /\ Includes(t, <<">">>) /\ MatchDelimited(t, "<", ">") # <<>>

SubjectOf(line) == MatchDelimited(Trim(line), "<", ">")

\* the line closes the statement: it ends with '.' or ';', or is blank
Closes(line) ==
  LET t == Trim(line)
  IN  EndsWith(t, <<".">>) \/ EndsWith(t, <<";">>) \/ t = <<>>

\* the line that closes the subject opened on line k, 0 when end of input or
\* another subject line comes first
ClosedAt(lines, k) ==
  LET J == {j \in k..Len(lines) :
              Closes(lines[j]) /\ \A i \in (k + 1)..j : ~Opens(lines[i])}
  IN  IF Opens(lines[k]) /\ J # {} THEN CHOOSE j \in J : \A o \in J : j <= o ELSE 0

\* the lines that open a subject, other than self, that is closed
EmittedLines(lines, self) ==
  SelectSeq([k \in 1..Len(lines) |-> k],
            LAMBDA k : ClosedAt(lines, k) # 0 /\ SubjectOf(lines[k]) # self)

ParsedLines == SplitLines(fnArgs.turtleContent, <<>>)

\* C31: the children parseResourceMetadata returns are, in order, the
\* subjects of the lines that open a subject and are followed, before the end
\* of the input and before another subject line, by a closing line (the
\* opening line itself, if it ends with '.' or ';'); a subject that is opened
\* and never closed is not among them.
C31_UnclosedDropped ==
  Done => LET e == EmittedLines(ParsedLines, fnArgs.containerUrl)
          IN  /\ Len(fnValue) = Len(e)
              /\ \A i \in 1..Len(e) : fnValue[i].uri = SubjectOf(ParsedLines[e[i]])

C31_Witness ==
  /\ Done
  /\ fnArgs = [turtleContent |-> TurtleLine(Uc, <<".">>) \o <<NL>> \o TurtleLine(Uca, <<>>),
               containerUrl |-> <<DcFormat>>]
  /\ Opens(ParsedLines[2])
  /\ ClosedAt(ParsedLines, 2) = 0
  /\ fnValue = <<[uri |-> Uc, type |-> "resource", contentType |-> <<>>]>>

\* the lines of the span that declare a content type
FormatLines(lines, k, j) ==
  {l \in k..j : /\ Includes(Trim(lines[l]), <<DcFormat>>)
                /\ MatchDelimited(Trim(lines[l]), "\"", "\"") # <<>>}

\* the content type declared in the span (the last one), <<>> when there is none
DeclaredIn(lines, k, j) ==
  LET F == FormatLines(lines, k, j)
  IN  IF F = {} THEN <<>>
      ELSE MatchDelimited(Trim(lines[CHOOSE l \in F : \A o \in F : l >= o]), "\"", "\"")

\* C32: every child parseResourceMetadata returns has the type 'container'
\* exactly when the marker http://www.w3.org/ns/ldp#Container occurs on a
\* line from the one that opened its subject to the one that closed it, and
\* carries the content type declared on those lines (none when none is);
\* nothing of the lines of an earlier child enters either.
C32_SpanOnly ==
  Done => LET e == EmittedLines(ParsedLines, fnArgs.containerUrl)
          IN  /\ Len(fnValue) = Len(e)
              /\ \A i \in 1..Len(e) :
                   LET k == e[i]
                       j == ClosedAt(ParsedLines, k)
                   IN  /\ fnValue[i].type = "container"
                          <=> \E l \in k..j : Includes(Trim(ParsedLines[l]), <<LdpContainer>>)
                       /\ fnValue[i].type \in {"container", "resource"}
                       /\ fnValue[i].contentType = DeclaredIn(ParsedLines, k, j)

C32_Witness ==
  /\ Done
  /\ fnArgs = [turtleContent |-> TurtleLine(Uc, IsA(LdpContainer) \o <<".">>) \o <<NL>>
                                 \o TurtleLine(Uca, <<".">>),
               containerUrl |-> <<DcFormat>>]
  /\ fnValue = <<[uri |-> Uc, type |-> "container", contentType |-> <<>>],
                 [uri |-> Uca, type |-> "resource", contentType |-> <<>>]>>

\* C34 as claimed: resolving a resolved locator against the same base again
\* leaves it unchanged, for every locator and every base (so that the GET
\* that follows the PUT of writeResource and createContainer, which resolves
\* the resolved locator once more, goes to the locator of the PUT).
C34_Idempotent ==
  (Done /\ "uri" \in DOMAIN fnArgs)
  => normalizeUrl(fnValue, fnArgs.baseUrl) = fnValue

\* the listing of a locator fetched before call i names u as a container
ContainerChildBefore(u, i) ==
  \E j \in 1..(i - 1) :
    LET listing == ListedIn(pod, calls[j].url)
    IN  \E k \in 1..Len(listing) : listing[k].uri = u /\ listing[k].type = "container"

\* C35: every transport call of a search is a GET; it goes to the start
\* container or, when recursive is true, to a locator that the listing of a
\* container fetched before names as a container. A search that is not
\* recursive fetches nothing but the start container (the read and its
\* listing), so no body of a child is ever read.
C35_SearchFetches ==
  (pc # "idle" /\ ActionIs("search") /\ Param("container_uri").t = "string")
  => /\ \A i \in 1..Len(calls) :
          /\ calls[i] = GetCall(calls[i].url)
          /\ \/ calls[i].url = Start
             \/ Truthy(Param("recursive")) /\ ContainerChildBefore(calls[i].url, i)
     /\ ~Truthy(Param("recursive")) => Len(calls) <= 2

\* a recursive search over c/{a/, d/, Ab}: a/ and d/ are fetched, the file Ab is not
C35_Witness ==
  /\ Done
  /\ ActionIs("search")
  /\ Param("recursive") = True
  /\ Start = Uc
  /\ pod[Uc].body = ListingTree
  /\ \E k \in 1..Len(Listed(Uc)) : Listed(Uc)[k].uri = UcAb /\ Listed(Uc)[k].type = "resource"
  /\ \E i \in 1..Len(calls) : calls[i].url = Uca
  /\ \E i \in 1..Len(calls) : calls[i].url = Ucd
  /\ \A i \in 1..Len(calls) : calls[i].url # UcAb
  /\ response.status = "success"
  /\ \E h \in 1..Len(response.result.results) : response.result.results[h].uri = UcAb

\* the hits of a recursive search from u: for every child in the order of the
\* listing its own hit, if its filename contains the term, then the hits of
\* the search inside it, if it is a container; a container that cannot be
\* read has no listing and so no hits
RECURSIVE HitsFrom(_, _, _, _), HitsOf(_, _, _, _)
HitsOf(store, children, term, fuel) ==
  IF children = <<>> THEN <<>>
  ELSE LET child == Head(children)
       IN  (IF Matches(child, term)
            THEN <<child @@ [relevance |-> RelevanceTenths]>>
            ELSE <<>>)
           \o (IF child.type = "container" /\ fuel > 0
               THEN HitsFrom(store, child.uri, term, fuel - 1)
               ELSE <<>>)
           \o HitsOf(store, Tail(children), term, fuel)

HitsFrom(store, u, term, fuel) == HitsOf(store, ListedIn(store, u), term, fuel)

\* a read below the start container was answered with a failure
SubReadFailed ==
  \E i \in 1..Len(outcomes) : outcomes[i].k # "ok" /\ calls[i].url # Start

\* C37 as claimed: a recursive search, over containers that hold no cycle, in
\* which the read of a container below the start container fails still
\* returns, in order, the hits of every other container; the container that
\* failed contributes none.
C37_PartialResults ==
  (IsSearch /\ Truthy(Param("recursive")) /\ SubReadFailed /\ Acyclic)
  => /\ response.status = "success"
     /\ \A store \in {pod} :
          response.result.results = HitsFrom(store, Start, Param("search_term").v, MaxCalls)

\* the path of the locator ends with the path delimiter
PathEndsWithDelimiter(u) ==
  IsAbsolute(u) /\ Head(u) \notin OpaqueUrls /\ EndsWith(Pathname(u), <<"/">>)

\* C38 as claimed: a search reports a child whose path ends with '/' only
\* when the term is empty, and a search for the empty term reports every
\* child of the container it starts from.
C38_EmptyFilename ==
  IsSearch
  => /\ response.status = "success"
     /\ \A h \in 1..Len(response.result.results) :
          PathEndsWithDelimiter(response.result.results[h].uri)
          => Param("search_term").v = <<>>
     /\ Param("search_term").v = <<>>
        => \A k \in 1..Len(Listed(Start)) :
             \E h \in 1..Len(response.result.results) :
               response.result.results[h].uri = Listed(Start)[k].uri

=============================================================================
